---- MODULE Spec2Model ----
(***************************************************************************)
(* Model of the dynamic-filter core (cyfko/filter-build, Python):           *)
(*   - DSLParser (tokenizer, shunting-yard, postfix-to-tree),               *)
(*   - the FilterTree node classes and their generate(),                    *)
(*   - the Operator catalogue and parse_operator,                           *)
(*   - PropertyRefImpl.supports_operator / validate_operator.               *)
(* Strings are sequences of one-character strings; a few characters         *)
(* outside ASCII are written by their code point ("U+00A0").                *)
(***************************************************************************)
EXTENDS Integers, Sequences, FiniteSets, TLC

(***************************************************************************)
(* Bounds of the model.                                                     *)
(***************************************************************************)
\* longest raw string over Alphabet passed to parse / _tokenize
MaxLen == 4
\* longest string over the parenthesis alphabet
MaxParenLen == 6
\* most tokens of a generated well-formed expression
MaxTokens == 7
\* longest string of a repeated parse call
MaxRepeatLen == 2
\* most whitespace characters on each side of an operator symbol
MaxPad == 1
\* longest arbitrary text passed to parse_operator
MaxOperatorLen == 3
\* most entries of a supported_operators list
MaxSupported == 2
\* most nodes of a generated FilterTree
MaxNodes == 6
\* longest string with characters outside ASCII passed to the parser
MaxUnicodeLen == 2
\* most nodes of the native fragment of a combinator's operand
MaxFragmentNodes == 2
\* most nodes of a FilterTree generated repeatedly
MaxRepeatNodes == 3
\* most add_condition / get_condition calls made on one context adapter
MaxCalls == 3
\* longest token list passed to _build_expression_tree
MaxPostfix == 4
\* longest string parsed one loop iteration at a time
MaxStepLen == 4

(***************************************************************************)
(* Characters and the str methods the code uses.                            *)
(***************************************************************************)
\* Python None, kept apart from every string (no string holds this symbol)
None == <<"None">>

LowerSeq == <<"a", "b", "c", "d", "e", "f", "g", "h", "i", "j", "k", "l", "m",
              "n", "o", "p", "q", "r", "s", "t", "u", "v", "w", "x", "y", "z">>
UpperSeq == <<"A", "B", "C", "D", "E", "F", "G", "H", "I", "J", "K", "L", "M",
              "N", "O", "P", "Q", "R", "S", "T", "U", "V", "W", "X", "Y", "Z">>
Digits == {"0", "1", "2", "3", "4", "5", "6", "7", "8", "9"}

Range(s) == {s[i] : i \in 1..Len(s)}

\* str.isspace() of one character: the ASCII whitespace and the other
\* characters Unicode classes as whitespace (vertical tab, no-break space)
isspace(c) == c \in {" ", "\t", "\n", "\r", "\f", "U+000B", "U+00A0"}

\* str.isalnum() of one character: letters and digits of any script
\* ("U+00E9" is e-acute, "U+0663" is ARABIC-INDIC DIGIT THREE)
isalnum(c) == c \in Range(LowerSeq) \cup Range(UpperSeq) \cup Digits
                    \cup {"U+00E9", "U+0663"}

RECURSIVE lstrip(_)
lstrip(s) == IF s # <<>> /\ isspace(Head(s)) THEN lstrip(Tail(s)) ELSE s

RECURSIVE rstrip(_)
rstrip(s) == IF s # <<>> /\ isspace(s[Len(s)])
             THEN rstrip(SubSeq(s, 1, Len(s) - 1)) ELSE s

\* str.strip(): leading and trailing whitespace removed
strip(s) == rstrip(lstrip(s))

\* str.upper() of one character and of a string
upperChar(c) == IF \E i \in 1..Len(LowerSeq) : LowerSeq[i] = c
                THEN UpperSeq[CHOOSE i \in 1..Len(LowerSeq) : LowerSeq[i] = c]
                ELSE c
upper(s) == [i \in 1..Len(s) |-> upperChar(s[i])]

(***************************************************************************)
(* Tokens, errors and tree nodes.                                           *)
(***************************************************************************)
Token(type, text) == [type |-> type, value |-> text]

\* DSLSyntaxException with its message; char and position are filled for
\* "Invalid character" only
NoError == [msg |-> "", char |-> "", position |-> -1]
DSLSyntaxException(msg) == [msg |-> msg, char |-> "", position |-> -1]
InvalidCharacter(c, i) ==
    [msg |-> "Invalid character", char |-> c, position |-> i]

NoTree == [kind |-> "none", identifier |-> <<>>, kids |-> <<>>]
IdentifierNode(identifier) ==
    [kind |-> "Identifier", identifier |-> identifier, kids |-> <<>>]
NotNode(operand) ==
    [kind |-> "Not", identifier |-> <<>>, kids |-> <<operand>>]
AndNode(left, right) ==
    [kind |-> "And", identifier |-> <<>>, kids |-> <<left, right>>]
OrNode(left, right) ==
    [kind |-> "Or", identifier |-> <<>>, kids |-> <<left, right>>]

(***************************************************************************)
(* DSLParser._tokenize                                                      *)
(***************************************************************************)
\* mutant of _get_token_type: '&' and '|' exchanged in token_map
_get_token_type_swapped(c) ==
    CASE c = "&" -> "OR"
      [] c = "|" -> "AND"
      [] c = "!" -> "NOT"
      [] c = "(" -> "LEFT_PAREN"
      [] c = ")" -> "RIGHT_PAREN"

_get_token_type(c) ==
    CASE c = "&" -> "AND"
      [] c = "|" -> "OR"
      [] c = "!" -> "NOT"
      [] c = "(" -> "LEFT_PAREN"
      [] c = ")" -> "RIGHT_PAREN"

\* tokens with the identifier in progress, if any, appended
Flush(tokens, current_token) ==
    IF current_token # <<>>
    THEN Append(tokens, Token("IDENTIFIER", current_token))
    ELSE tokens

\* the for loop of _tokenize from index i (1-based here, enumerate's i - 1)
RECURSIVE TokenizeLoop(_, _, _, _)
TokenizeLoop(expression, i, tokens, current_token) ==
    IF i > Len(expression)
    THEN [ok |-> TRUE, tokens |-> Flush(tokens, current_token),
          error |-> NoError]
    ELSE LET c == expression[i] IN
         IF isspace(c)
         THEN TokenizeLoop(expression, i + 1,
                           Flush(tokens, current_token), <<>>)
         ELSE IF c \in {"&", "|", "!", "(", ")"}
         THEN TokenizeLoop(expression, i + 1,
                  Append(Flush(tokens, current_token),
                         Token(_get_token_type(c), <<c>>)),
                  <<>>)
         ELSE IF isalnum(c) \/ c = "_"
         THEN TokenizeLoop(expression, i + 1, tokens,
                           Append(current_token, c))
         ELSE [ok |-> FALSE, tokens |-> <<>>,
               error |-> InvalidCharacter(c, i - 1)]

_tokenize(expression) == TokenizeLoop(expression, 1, <<>>, <<>>)

(***************************************************************************)
(* DSLParser._infix_to_postfix (shunting yard)                              *)
(***************************************************************************)
\* mutant of _get_precedence: AND given the precedence of OR
_get_precedence_flat(token_type) ==
    CASE token_type = "NOT" -> 3
      [] token_type = "AND" -> 1
      [] token_type = "OR" -> 1
      [] OTHER -> 0

_get_precedence(token_type) ==
    CASE token_type = "NOT" -> 3
      [] token_type = "AND" -> 2
      [] token_type = "OR" -> 1
      [] OTHER -> 0

Top(stack) == stack[Len(stack)]
Pop(stack) == SubSeq(stack, 1, Len(stack) - 1)

\* mutant of PopHigher: the popped operators are not appended to the output
RECURSIVE PopHigherDropping(_, _, _)
PopHigherDropping(output, operators, token) ==
    IF /\ operators # <<>>
       /\ Top(operators).type # "LEFT_PAREN"
       /\ _get_precedence(Top(operators).type) >= _get_precedence(token.type)
    THEN PopHigherDropping(output, Pop(operators), token)
    ELSE [output |-> output, operators |-> operators]

\* the while loop of the AND/OR branch
RECURSIVE PopHigher(_, _, _)
PopHigher(output, operators, token) ==
    IF /\ operators # <<>>
       /\ Top(operators).type # "LEFT_PAREN"
       /\ _get_precedence(Top(operators).type) >= _get_precedence(token.type)
    THEN PopHigher(Append(output, Top(operators)), Pop(operators), token)
    ELSE [output |-> output, operators |-> operators]

\* mutant of PopToParen: an if in place of the while, one operator popped
PopToParenOnce(output, operators) ==
    IF operators # <<>> /\ Top(operators).type # "LEFT_PAREN"
    THEN [output |-> Append(output, Top(operators)),
          operators |-> Pop(operators)]
    ELSE [output |-> output, operators |-> operators]

\* the while loop of the RIGHT_PAREN branch
RECURSIVE PopToParen(_, _)
PopToParen(output, operators) ==
    IF operators # <<>> /\ Top(operators).type # "LEFT_PAREN"
    THEN PopToParen(Append(output, Top(operators)), Pop(operators))
    ELSE [output |-> output, operators |-> operators]

\* mutant of Drain: the LEFT_PAREN check of the final loop left out
RECURSIVE DrainUnchecked(_, _)
DrainUnchecked(output, operators) ==
    IF operators = <<>>
    THEN [ok |-> TRUE, output |-> output, error |-> NoError]
    ELSE DrainUnchecked(Append(output, Top(operators)), Pop(operators))

\* the final while loop, draining the operator stack
RECURSIVE Drain(_, _)
Drain(output, operators) ==
    IF operators = <<>>
    THEN [ok |-> TRUE, output |-> output, error |-> NoError]
    ELSE IF Top(operators).type = "LEFT_PAREN"
    THEN [ok |-> FALSE, output |-> <<>>,
          error |-> DSLSyntaxException("Mismatched parentheses")]
    ELSE Drain(Append(output, Top(operators)), Pop(operators))

\* the for loop over the tokens from index i
RECURSIVE PostfixLoop(_, _, _, _)
PostfixLoop(tokens, i, output, operators) ==
    IF i > Len(tokens)
    THEN Drain(output, operators)
    ELSE LET token == tokens[i] IN
         IF token.type = "IDENTIFIER"
         THEN PostfixLoop(tokens, i + 1, Append(output, token), operators)
         ELSE IF token.type = "NOT"
         THEN PostfixLoop(tokens, i + 1, output, Append(operators, token))
         ELSE IF token.type \in {"AND", "OR"}
         THEN LET p == PopHigher(output, operators, token) IN
              PostfixLoop(tokens, i + 1, p.output,
                          Append(p.operators, token))
         ELSE IF token.type = "LEFT_PAREN"
         THEN PostfixLoop(tokens, i + 1, output, Append(operators, token))
         ELSE \* RIGHT_PAREN
              LET p == PopToParen(output, operators) IN
              IF p.operators = <<>>
              THEN [ok |-> FALSE, output |-> <<>>,
                    error |-> DSLSyntaxException("Mismatched parentheses")]
              ELSE PostfixLoop(tokens, i + 1, p.output, Pop(p.operators))

_infix_to_postfix(tokens) == PostfixLoop(tokens, 1, <<>>, <<>>)

(***************************************************************************)
(* DSLParser._build_expression_tree                                         *)
(***************************************************************************)
\* mutant of BuildFail: one message for every failure of the phase
BuildFailMalformed(msg) ==
    [ok |-> FALSE, tree |-> NoTree,
     error |-> DSLSyntaxException("Invalid expression: malformed syntax")]

BuildFail(msg) ==
    [ok |-> FALSE, tree |-> NoTree, error |-> DSLSyntaxException(msg)]

RECURSIVE BuildLoop(_, _, _)
BuildLoop(postfix, i, stack) ==
    IF i > Len(postfix)
    THEN IF Len(stack) # 1
         THEN BuildFail("Invalid expression: malformed syntax")
         ELSE [ok |-> TRUE, tree |-> stack[1], error |-> NoError]
    ELSE LET token == postfix[i] IN
         IF token.type = "IDENTIFIER"
         THEN BuildLoop(postfix, i + 1,
                        Append(stack, IdentifierNode(token.value)))
         ELSE IF token.type = "NOT"
         THEN IF stack = <<>>
              THEN BuildFail("Invalid expression: NOT operator without operand")
              ELSE BuildLoop(postfix, i + 1,
                             Append(Pop(stack), NotNode(Top(stack))))
         ELSE IF token.type = "AND"
         THEN IF Len(stack) < 2
              THEN BuildFail("Invalid expression: AND operator requires two operands")
              ELSE LET right == Top(stack)
                       left == Top(Pop(stack))
                   IN BuildLoop(postfix, i + 1,
                          Append(Pop(Pop(stack)), AndNode(left, right)))
         ELSE IF token.type = "OR"
         THEN IF Len(stack) < 2
              THEN BuildFail("Invalid expression: OR operator requires two operands")
              ELSE LET right == Top(stack)
                       left == Top(Pop(stack))
                   IN BuildLoop(postfix, i + 1,
                          Append(Pop(Pop(stack)), OrNode(left, right)))
         ELSE BuildLoop(postfix, i + 1, stack)

_build_expression_tree(postfix) == BuildLoop(postfix, 1, <<>>)

(***************************************************************************)
(* Reference definitions the parser is compared with: the tokens of a       *)
(* string as its maximal runs, and a recursive-descent parser of the        *)
(* grammar  E ::= T ('|' T)*   T ::= F ('&' F)*   F ::= '!' F | '(' E ')'   *)
(* | IDENT, in which NOT binds tighter than AND, AND tighter than OR, and   *)
(* AND and OR associate to the left.                                        *)
(***************************************************************************)
OperatorChars == {"&", "|", "!", "(", ")"}
IdentifierChars == Range(LowerSeq) \cup Range(UpperSeq) \cup Digits \cup {"_"}
WhitespaceChars == {" ", "\t", "\n"}

\* only identifier characters, operator characters and whitespace
LexicallyPlain(s) ==
    \A i \in 1..Len(s) :
        s[i] \in IdentifierChars \cup OperatorChars \cup WhitespaceChars

RefTokenStarts(s) ==
    {i \in 1..Len(s) :
        \/ s[i] \in OperatorChars
        \/ /\ s[i] \in IdentifierChars
           /\ (i = 1 \/ s[i - 1] \notin IdentifierChars)}

RefRunEnd(s, i) ==
    CHOOSE j \in i..Len(s) :
        /\ \A k \in i..j : s[k] \in IdentifierChars
        /\ (j = Len(s) \/ s[j + 1] \notin IdentifierChars)

RefTokenAt(s, i) ==
    IF s[i] \in IdentifierChars
    THEN Token("IDENTIFIER", SubSeq(s, i, RefRunEnd(s, i)))
    ELSE Token(CASE s[i] = "&" -> "AND" [] s[i] = "|" -> "OR"
                 [] s[i] = "!" -> "NOT" [] s[i] = "(" -> "LEFT_PAREN"
                 [] s[i] = ")" -> "RIGHT_PAREN", <<s[i]>>)

RefTokens(s) ==
    LET starts == RefTokenStarts(s)
        nth(k) == CHOOSE i \in starts :
                      Cardinality({j \in starts : j < i}) = k - 1
    IN [k \in 1..Cardinality(starts) |-> RefTokenAt(s, nth(k))]

RefFail == [ok |-> FALSE, tree |-> NoTree, rest |-> <<>>]
RefOk(t, rest) == [ok |-> TRUE, tree |-> t, rest |-> rest]

RECURSIVE RefExpr(_), RefTerm(_), RefFactor(_), RefOrTail(_), RefAndTail(_)
RefFactor(ts) ==
    IF ts = <<>> THEN RefFail
    ELSE IF Head(ts).type = "IDENTIFIER"
    THEN RefOk(IdentifierNode(Head(ts).value), Tail(ts))
    ELSE IF Head(ts).type = "NOT"
    THEN LET r == RefFactor(Tail(ts)) IN
         IF r.ok THEN RefOk(NotNode(r.tree), r.rest) ELSE RefFail
    ELSE IF Head(ts).type = "LEFT_PAREN"
    THEN LET r == RefExpr(Tail(ts)) IN
         IF r.ok /\ r.rest # <<>> /\ Head(r.rest).type = "RIGHT_PAREN"
         THEN RefOk(r.tree, Tail(r.rest)) ELSE RefFail
    ELSE RefFail
RefAndTail(l) ==
    IF l.ok /\ l.rest # <<>> /\ Head(l.rest).type = "AND"
    THEN LET r == RefFactor(Tail(l.rest)) IN
         IF r.ok THEN RefAndTail(RefOk(AndNode(l.tree, r.tree), r.rest))
         ELSE RefFail
    ELSE l
RefTerm(ts) == RefAndTail(RefFactor(ts))
RefOrTail(l) ==
    IF l.ok /\ l.rest # <<>> /\ Head(l.rest).type = "OR"
    THEN LET r == RefTerm(Tail(l.rest)) IN
         IF r.ok THEN RefOrTail(RefOk(OrNode(l.tree, r.tree), r.rest))
         ELSE RefFail
    ELSE l
RefExpr(ts) == RefOrTail(RefTerm(ts))

\* the token sequence is a sentence of the grammar
WellFormed(ts) == LET r == RefExpr(ts) IN r.ok /\ r.rest = <<>>
RefTree(ts) == RefExpr(ts).tree

\* the parentheses of a string are balanced: no ')' without an earlier
\* unmatched '(' and no '(' left open
Depth(s, n) ==
    Cardinality({i \in 1..n : s[i] = "("})
      - Cardinality({i \in 1..n : s[i] = ")"})
Balanced(s) ==
    /\ \A n \in 1..Len(s) : Depth(s, n) >= 0
    /\ Depth(s, Len(s)) = 0

NoParens(s) == \A i \in 1..Len(s) : s[i] \notin {"(", ")"}

\* None, empty or whitespace only
Blank(s) == s = None \/ \A i \in 1..Len(s) : s[i] \in WhitespaceChars

(***************************************************************************)
(* The strings a caller passes.                                             *)
(***************************************************************************)
Alphabet == {"a", "b", " ", "\t", "&", "|", "!", "(", ")", "#"}
ParenAlphabet == {"a", "&", "(", ")"}
Identifiers == {"a", "b", "c"}
\* e-acute, ARABIC-INDIC DIGIT THREE, NO-BREAK SPACE and carriage return
\* beside characters of the grammar
UnicodeAlphabet == {"a", "_", "&", "#", "U+00E9", "U+0663", "U+00A0", "\r"}

\* every string over A of length at most n
RECURSIVE StringsUpTo(_, _)
StringsUpTo(A, n) ==
    IF n = 0 THEN {<<>>}
    ELSE LET shorter == StringsUpTo(A, n - 1) IN
         shorter \cup {Append(s, c) : s \in shorter, c \in A}

\* the sentences of the grammar with exactly n one-character tokens
RECURSIVE Sentences(_)
Sentences(n) ==
    IF n = 1 THEN {<<x>> : x \in Identifiers}
    ELSE {<<"!">> \o e : e \in Sentences(n - 1)}
         \cup (IF n >= 3
               THEN {<<"(">> \o e \o <<")">> : e \in Sentences(n - 2)}
               ELSE {})
         \cup UNION {{l \o <<op>> \o r :
                        l \in Sentences(k), op \in {"&", "|"},
                        r \in Sentences(n - 1 - k)} : k \in 1..(n - 2)}

\* the sentences of at most n tokens
SentencesUpTo(n) == UNION {Sentences(k) : k \in 1..n}

\* the strings named by the specification and the tests
Examples == {
    <<"(", "f", "i", "l", "t", "e", "r", "1", " ", "&", " ", "f", "i", "l",
      "t", "e", "r", "2", ")", " ", "|", " ", "!", "f", "i", "l", "t", "e",
      "r", "3">>,
    <<"!", "a", " ", "&", " ", "b", " ", "|", " ", "c">>,
    <<"a", " ", "&", " ", "b", " ", "&", " ", "c">>,
    <<"a", " ", "&", " ", "(", "b", " ", "|", " ", "c", ")">>,
    <<"a", " ", "&", " ", "b", " ", "|", " ", "c">>,
    <<"!", "(", "a", " ", "|", " ", "b", ")">>,
    <<"(", "a", " ", "&", " ", "b">>,
    <<"a", " ", "&", " ", "b", ")">>,
    <<"f", "i", "l", "t", "e", "r", "1", "\t", "&", "\n", "f", "i", "l", "t",
      "e", "r", "2">>,
    <<"f", "i", "l", "t", "e", "r", "1", "@", "#", "$", "%">>,
    <<" ", " ", "a", " ", "&", " ", "#", "b">>,
    <<"(", "U+00E9">>,
    <<"a", " ", "!">>, <<"a", " ", "b", " ", "&">>, <<"&", " ", "a", " ", "b">>,
    <<"a", " ", "(", ")">>}

\* the strings passed to the parser: all short ones, longer ones of
\* parentheses, the sentences of the grammar, short ones with characters
\* outside ASCII, and the examples
Strings(len, parenLen, nTokens, unicodeLen) ==
    StringsUpTo(Alphabet, len)
        \cup StringsUpTo(ParenAlphabet, parenLen)
        \cup SentencesUpTo(nTokens)
        \cup StringsUpTo(UnicodeAlphabet, unicodeLen)
        \cup Examples

(***************************************************************************)
(* validation.py: the Operator enumeration and parse_operator.              *)
(***************************************************************************)
\* class Operator(Enum), in definition order, each with its symbol
Operator == <<
    [name |-> "EQUALS", value |-> <<"=">>],
    [name |-> "NOT_EQUALS", value |-> <<"!", "=">>],
    [name |-> "GREATER_THAN", value |-> <<">">>],
    [name |-> "GREATER_THAN_OR_EQUAL", value |-> <<">", "=">>],
    [name |-> "LESS_THAN", value |-> <<"<">>],
    [name |-> "LESS_THAN_OR_EQUAL", value |-> <<"<", "=">>],
    [name |-> "LIKE", value |-> <<"L", "I", "K", "E">>],
    [name |-> "NOT_LIKE",
     value |-> <<"N", "O", "T", " ", "L", "I", "K", "E">>],
    [name |-> "IN", value |-> <<"I", "N">>],
    [name |-> "NOT_IN", value |-> <<"N", "O", "T", " ", "I", "N">>],
    [name |-> "IS_NULL", value |-> <<"I", "S", " ", "N", "U", "L", "L">>],
    [name |-> "IS_NOT_NULL",
     value |-> <<"I", "S", " ", "N", "O", "T", " ", "N", "U", "L", "L">>],
    [name |-> "BETWEEN", value |-> <<"B", "E", "T", "W", "E", "E", "N">>],
    [name |-> "NOT_BETWEEN",
     value |-> <<"N", "O", "T", " ", "B", "E", "T", "W", "E", "E", "N">>] >>

OperatorNames == {Operator[i].name : i \in 1..Len(Operator)}

\* what a function call gave: a returned value ("None" for Python None) or
\* a raised exception
Returned(v) == [raised |-> FALSE, value |-> v, error |-> ""]
Raise(error) == [raised |-> TRUE, value |-> "None", error |-> error]
NotCalled == [raised |-> FALSE, value |-> "pending", error |-> ""]

Min(S) == CHOOSE x \in S : \A y \in S : x <= y
Max(S) == CHOOSE x \in S : \A y \in S : x >= y

\* mutant of parse_operator: the upper() left out, symbols match as written
parse_operator_case_sensitive(v) ==
    IF v = None \/ v = <<>>
    THEN Returned("None")
    ELSE LET stripped == strip(v)
             hits == {i \in 1..Len(Operator) :
                         \/ Operator[i].value = v
                         \/ Operator[i].value = stripped}
         IN IF hits = {} THEN Returned("None")
            ELSE Returned(Operator[Min(hits)].name)

\* mutant of parse_operator: the "if not value" guard left out, so that
\* None.strip() raises
parse_operator_unguarded(v) ==
    IF v = None
    THEN Raise("AttributeError")
    ELSE LET stripped == upper(strip(v))
             hits == {i \in 1..Len(Operator) :
                         \/ Operator[i].value = v
                         \/ Operator[i].value = stripped}
         IN IF hits = {} THEN Returned("None")
            ELSE Returned(Operator[Min(hits)].name)

\* parse_operator: the first operator, in enumeration order, whose symbol is
\* the raw text or the stripped, upper-cased text
parse_operator(v) ==
    IF v = None \/ v = <<>>
    THEN Returned("None")
    ELSE LET stripped == upper(strip(v))
             hits == {i \in 1..Len(Operator) :
                         \/ Operator[i].value = v
                         \/ Operator[i].value = stripped}
         IN IF hits = {} THEN Returned("None")
            ELSE Returned(Operator[Min(hits)].name)

(***************************************************************************)
(* validation.py: PropertyRefImpl.                                          *)
(***************************************************************************)
PropertyRefImpl(type_name, supported_operators) ==
    [type_name |-> type_name, supported_operators |-> supported_operators]

\* mutant of supports_operator: only the first supported operator is looked at
supports_operator_first(self, op) ==
    /\ self.supported_operators # <<>>
    /\ self.supported_operators[1] = op

\* operator in self._supported_operators, a list
supports_operator(self, op) ==
    \E i \in 1..Len(self.supported_operators) :
        self.supported_operators[i] = op

validate_operator(self, op) ==
    IF ~supports_operator(self, op)
    THEN Raise("ValueError: Operator is not supported for this property")
    ELSE Returned("None")

(***************************************************************************)
(* Conditions, contexts and FilterTree.generate.                            *)
(* A Condition is an instance of a backend class wrapping a native query    *)
(* fragment; the fragment is written as a tree over the filter keys whose   *)
(* conditions were combined with &, | and ~.                                *)
(***************************************************************************)
Condition(class, q) == [class |-> class, q |-> q]
\* Python None where a Condition is expected
NoCondition == [class |-> "NoneType", q |-> NoTree]

\* what a call gave, with the calls it made on the context and on
\* conditions, in order (filled in by generate)
GenReturned(cond) ==
    [raised |-> FALSE, cond |-> cond, error |-> "", key |-> <<>>,
     calls |-> <<>>]
GenRaise(error, key) ==
    [raised |-> TRUE, cond |-> NoCondition, error |-> error, key |-> key,
     calls |-> <<>>]
GenNotCalled ==
    [raised |-> FALSE, cond |-> NoCondition, error |-> "pending", key |-> <<>>,
     calls |-> <<>>]

\* one call made while generating: context.get_condition(key),
\* self.not_(), self.and_(other) or self.or_(other)
Call(meth, key, self, other) ==
    [method |-> meth, key |-> key, self |-> self, other |-> other]
WithCalls(r, calls) == [r EXCEPT !.calls = calls]

\* mutant of and_: the isinstance test left out, the other operand's
\* fragment taken whatever its class
and_coercing(self, other) ==
    IF other = NoCondition
    THEN GenRaise("AttributeError", <<>>)
    ELSE GenReturned(Condition(self.class, AndNode(self.q, other.q)))

\* DjangoConditionAdapter / SQLAlchemyConditionAdapter combinators; the
\* isinstance test compares the classes
and_(self, other) ==
    IF other.class # self.class
    THEN GenRaise("Cannot combine with non-backend condition", <<>>)
    ELSE GenReturned(Condition(self.class, AndNode(self.q, other.q)))
or_(self, other) ==
    IF other.class # self.class
    THEN GenRaise("Cannot combine with non-backend condition", <<>>)
    ELSE GenReturned(Condition(self.class, OrNode(self.q, other.q)))
not_(self) == GenReturned(Condition(self.class, NotNode(self.q)))

\* a Condition implementation whose instances are false in a boolean test
\* (it defines __bool__ or __len__); Condition is an abstract class
\* (interfaces.py:31) and the builders that return conditions are abstract
FalsyConditionClass == "EmptyCondition"

\* truth value of an object: None is false; the adapters' condition classes
\* define neither __bool__ nor __len__, so their instances are true
bool(condition) ==
    condition # NoCondition /\ condition.class # FalsyConditionClass

\* dict.get(key): the value, or None
DictGet(d, key) == IF key \in DOMAIN d THEN d[key] ELSE NoCondition

\* the class of the conditions a context adapter stores
ConditionClassOf(context_class) ==
    IF context_class = "DjangoContextAdapter"
    THEN "DjangoConditionAdapter"
    ELSE "SQLAlchemyConditionAdapter"

(***************************************************************************)
(* FilterDefinitions, and the context adapters that build a condition on    *)
(* each lookup (django_adapter.py, sqlalchemy_adapter.py).                  *)
(* A value is "None", "scalar" or a list, written "list0" .. "list3" by     *)
(* its length.                                                              *)
(***************************************************************************)
FilterDefinition(r, op, v) == [ref |-> r, operator |-> op, value |-> v]

Lists == {"list0", "list1", "list2", "list3"}
\* isinstance(value, list)
isinstance_list(v) == v \in Lists

\* len(value) of a list
list_len(v) ==
    CASE v = "list0" -> 0
      [] v = "list1" -> 1
      [] v = "list2" -> 2
      [] v = "list3" -> 3

NoPropertyRef == PropertyRefImpl("NoneType", <<>>)

\* the native fragment a builder makes of (ref, operator, value)
Fragment(r, op, v) ==
    [kind |-> "Leaf", identifier |-> <<r, op, v>>, kids |-> <<>>]

\* class UserPropertyRef of the example, as a registry after
\* register_all: the properties by entity field
UserPropertyRef ==
    [userName |-> PropertyRefImpl("str", <<"LIKE", "EQUALS", "IN", "NOT_IN">>),
     age |-> PropertyRefImpl("int",
                <<"EQUALS", "NOT_EQUALS", "GREATER_THAN",
                  "GREATER_THAN_OR_EQUAL", "LESS_THAN", "LESS_THAN_OR_EQUAL",
                  "IN", "NOT_IN", "BETWEEN", "NOT_BETWEEN">>)]

\* PropertyRegistry.get_property(name): the property registered under the
\* name, or None
PropertyRegistry_get_property(self, name) ==
    IF name \in DOMAIN self THEN self[name] ELSE NoPropertyRef

LazyContextClasses ==
    {"django_adapter.DjangoContextAdapter",
     "sqlalchemy_adapter.SQLAlchemyContextAdapter"}

\* the condition class of a lazy adapter, and the class of its fragments
LazyConditionClassOf(context_class) ==
    IF context_class = "django_adapter.DjangoContextAdapter"
    THEN "DjangoCondition"
    ELSE "SQLAlchemyCondition"
NativeClassOf(context_class) ==
    IF context_class = "django_adapter.DjangoContextAdapter"
    THEN "Q"
    ELSE "ClauseElement"

\* mutant of _create_q_object: BETWEEN and NOT_BETWEEN take a list of any
\* length
_create_q_object_any_list(self, property_ref, op, v, expected_type) ==
    LET native == NativeClassOf(self.class) IN
    CASE op \in {"EQUALS", "NOT_EQUALS", "GREATER_THAN",
                 "GREATER_THAN_OR_EQUAL", "LESS_THAN", "LESS_THAN_OR_EQUAL",
                 "LIKE", "NOT_LIKE"} ->
            GenReturned(Condition(native, Fragment(property_ref, op, v)))
      [] op \in {"IN", "NOT_IN"} ->
            LET values == IF isinstance_list(v) THEN v ELSE "list1" IN
            GenReturned(Condition(native, Fragment(property_ref, op, values)))
      [] op = "IS_NULL" ->
            GenReturned(Condition(native, Fragment(property_ref, op, "True")))
      [] op = "IS_NOT_NULL" ->
            GenReturned(Condition(native, Fragment(property_ref, op, "False")))
      [] op = "BETWEEN" ->
            IF isinstance_list(v)
            THEN GenReturned(Condition(native, Fragment(property_ref, op, v)))
            ELSE GenRaise("BETWEEN operator requires exactly 2 values", <<>>)
      [] op = "NOT_BETWEEN" ->
            IF isinstance_list(v)
            THEN GenReturned(Condition(native, Fragment(property_ref, op, v)))
            ELSE GenRaise("NOT BETWEEN operator requires exactly 2 values",
                          <<>>)
      [] OTHER -> GenRaise("Unsupported operator", <<>>)

\* DjangoContextAdapter._create_q_object /
\* SQLAlchemyContextAdapter._create_clause: the if/elif chain over the
\* operators; IN wraps a value that is no list, IS_NULL does not read the
\* value, BETWEEN asks for a list of 2
_create_q_object(self, property_ref, op, v, expected_type) ==
    LET native == NativeClassOf(self.class) IN
    CASE op \in {"EQUALS", "NOT_EQUALS", "GREATER_THAN",
                 "GREATER_THAN_OR_EQUAL", "LESS_THAN", "LESS_THAN_OR_EQUAL",
                 "LIKE", "NOT_LIKE"} ->
            GenReturned(Condition(native, Fragment(property_ref, op, v)))
      [] op \in {"IN", "NOT_IN"} ->
            LET values == IF isinstance_list(v) THEN v ELSE "list1" IN
            GenReturned(Condition(native, Fragment(property_ref, op, values)))
      [] op = "IS_NULL" ->
            GenReturned(Condition(native, Fragment(property_ref, op, "True")))
      [] op = "IS_NOT_NULL" ->
            GenReturned(Condition(native, Fragment(property_ref, op, "False")))
      [] op = "BETWEEN" ->
            IF isinstance_list(v) /\ list_len(v) = 2
            THEN GenReturned(Condition(native, Fragment(property_ref, op, v)))
            ELSE GenRaise("BETWEEN operator requires exactly 2 values", <<>>)
      [] op = "NOT_BETWEEN" ->
            IF isinstance_list(v) /\ list_len(v) = 2
            THEN GenReturned(Condition(native, Fragment(property_ref, op, v)))
            ELSE GenRaise("NOT BETWEEN operator requires exactly 2 values",
                          <<>>)
      [] OTHER -> GenRaise("Unsupported operator", <<>>)

\* _create_condition: the property looked up in the registry, the operator
\* parsed from its text, the fragment built and wrapped
_create_condition(self, filter_def) ==
    LET property_ref == PropertyRegistry_get_property(self.property_registry,
                                                      filter_def.ref)
        op == parse_operator(filter_def.operator)
    IN
    IF property_ref = NoPropertyRef
    THEN GenRaise("Property not found", <<>>)
    ELSE IF op.value = "None"
    THEN GenRaise("Invalid operator", <<>>)
    ELSE LET q_object == _create_q_object(self, filter_def.ref, op.value,
                                          filter_def.value,
                                          property_ref.type_name)
             calls == <<Call("_create_q_object", <<>>,
                             Condition("", Fragment(filter_def.ref, op.value,
                                                    filter_def.value)),
                             NoCondition)>>
         IN IF q_object.raised
            THEN WithCalls(q_object, calls)
            ELSE WithCalls(
                     GenReturned(Condition(LazyConditionClassOf(self.class),
                                           q_object.cond.q)),
                     calls)

\* get_condition of the lazy adapters: a FilterDefinition is an object and
\* so true; a key without one raises
Lazy_get_condition(self, filter_key) ==
    IF filter_key \notin DOMAIN self.filters
    THEN GenRaise("No filter found for key", filter_key)
    ELSE _create_condition(self, self.filters[filter_key])

\* get_condition of the context adapters: the SQLAlchemy one returns
\* filters.get(key), the Django one raises when there is no condition, the
\* lazy ones build the condition
get_condition(self, filter_key) ==
    IF self.class \in LazyContextClasses
    THEN Lazy_get_condition(self, filter_key)
    ELSE IF self.class = "SQLAlchemyContextAdapter"
    THEN GenReturned(DictGet(self.filters, filter_key))
    ELSE LET condition == DictGet(self.filters, filter_key) IN
         IF ~bool(condition)
         THEN GenRaise("No condition found for key", filter_key)
         ELSE GenReturned(condition)

\* mutant of IdentifierNode_generate: the "if not condition" check left out
IdentifierNode_generate_unchecked(self, ctx) ==
    get_condition(ctx, self.identifier)

IdentifierNode_generate(self, ctx) ==
    LET r == get_condition(ctx, self.identifier)
        calls == <<Call("get_condition", self.identifier,
                        NoCondition, NoCondition)>> \o r.calls
    IN
    IF r.raised THEN WithCalls(r, calls)
    ELSE IF ~bool(r.cond)
    THEN WithCalls(GenRaise("No condition found for identifier",
                            self.identifier), calls)
    ELSE WithCalls(GenReturned(r.cond), calls)

\* a method looked up on None raises AttributeError
MethodOf(r, call) ==
    IF r.cond = NoCondition THEN GenRaise("AttributeError", <<>>) ELSE call

\* generate of the four node classes, dispatched on the node's class
RECURSIVE generate(_, _)
NotNode_generate(self, ctx) ==
    LET r == generate(self.kids[1], ctx) IN
    IF r.raised THEN r
    ELSE WithCalls(MethodOf(r, not_(r.cond)),
                   Append(r.calls, Call("not_", <<>>, r.cond, NoCondition)))

\* mutant of AndNode_generate: the right operand generated first
AndNode_generate_right_first(self, ctx) ==
    LET r == generate(self.kids[2], ctx) IN
    IF r.raised THEN r
    ELSE LET l == generate(self.kids[1], ctx) IN
         IF l.raised THEN WithCalls(l, r.calls \o l.calls)
         ELSE WithCalls(MethodOf(l, and_(l.cond, r.cond)),
                        Append(r.calls \o l.calls,
                               Call("and_", <<>>, l.cond, r.cond)))

AndNode_generate(self, ctx) ==
    LET l == generate(self.kids[1], ctx) IN
    IF l.raised THEN l
    ELSE LET r == generate(self.kids[2], ctx) IN
         IF r.raised THEN WithCalls(r, l.calls \o r.calls)
         ELSE WithCalls(MethodOf(l, and_(l.cond, r.cond)),
                        Append(l.calls \o r.calls,
                               Call("and_", <<>>, l.cond, r.cond)))
OrNode_generate(self, ctx) ==
    LET l == generate(self.kids[1], ctx) IN
    IF l.raised THEN l
    ELSE LET r == generate(self.kids[2], ctx) IN
         IF r.raised THEN WithCalls(r, l.calls \o r.calls)
         ELSE WithCalls(MethodOf(l, or_(l.cond, r.cond)),
                        Append(l.calls \o r.calls,
                               Call("or_", <<>>, l.cond, r.cond)))
generate(node, ctx) ==
    CASE node.kind = "Identifier" -> IdentifierNode_generate(node, ctx)
      [] node.kind = "Not" -> NotNode_generate(node, ctx)
      [] node.kind = "And" -> AndNode_generate(node, ctx)
      [] node.kind = "Or" -> OrNode_generate(node, ctx)

(***************************************************************************)
(* The context adapters that build conditions eagerly                       *)
(* (sqlalchemy-context-adapter.py, django-context-adapter.py).              *)
(***************************************************************************)
\* class TestPropertyRefImpl: the declared properties; an attribute that is
\* not declared or is None has no entry
TestPropertyRefImpl ==
    [USER_NAME |-> PropertyRefImpl("string", <<"EQUALS", "LIKE", "IN">>),
     USER_AGE |-> PropertyRefImpl("int", <<"EQUALS", "GREATER_THAN",
                                           "LESS_THAN", "BETWEEN">>)]

\* getattr(property_ref_impl, name, None)
getattr(impl, name) ==
    IF name \in DOMAIN impl THEN impl[name] ELSE NoPropertyRef

\* PropertyRefUtils.validate_operator(property_ref, operator)
PropertyRefUtils_validate_operator(property_ref, op) ==
    validate_operator(property_ref, op)

\* ConditionAdapterBuilder.build of the two builders at hand: the mock of
\* the tests builds for every operator, the example builder raises for
\* operators other than EQUALS, LIKE and GREATER_THAN
build(builder, cl, r, op, v) ==
    IF builder = "Example" /\ op \notin {"EQUALS", "LIKE", "GREATER_THAN"}
    THEN GenRaise("Unsupported operator", <<>>)
    ELSE GenReturned(Condition(cl, Fragment(r, op, v)))

\* DjangoContextAdapter._parse_operator
_parse_operator(operator_str) == "None"

\* self.filters[filter_key] = condition
DictSet(d, key, v) ==
    [k \in DOMAIN d \cup {key} |-> IF k = key THEN v ELSE d[k]]

\* what add_condition gave: the adapter after the call, the outcome and the
\* builder calls made
AddRaise(self, error, key, calls) ==
    [self |-> self, result |-> WithCalls(GenRaise(error, key), calls)]
AddReturned(self, calls) ==
    [self |-> self, result |-> WithCalls(GenReturned(NoCondition), calls)]

\* the end of add_condition: build, then store
BuildAndStore(self, filter_key, r, op, v) ==
    LET b == build(self.builder, ConditionClassOf(self.class), r, op, v)
        calls == <<Call("build", filter_key,
                        Condition("", Fragment(r, op, v)), NoCondition)>>
    IN IF b.raised
       THEN AddRaise(self, b.error, filter_key, calls)
       ELSE AddReturned(
                [self EXCEPT !.filters = DictSet(@, filter_key, b.cond)],
                calls)

\* mutant of SQLAlchemy_add_condition: the condition is built and stored
\* before the operator is validated
SQLAlchemy_add_condition_late(self, filter_key, definition) ==
    LET property_ref == getattr(self.property_ref_impl, definition.ref)
        stored == BuildAndStore(self, filter_key, definition.ref,
                                definition.operator, definition.value)
    IN IF property_ref = NoPropertyRef
       THEN AddRaise(self, "Invalid PropertyRef", filter_key, <<>>)
       ELSE IF PropertyRefUtils_validate_operator(
                   property_ref, definition.operator).raised
       THEN AddRaise(stored.self, "Operator is not supported", filter_key,
                     stored.result.calls)
       ELSE stored

\* mutant of SQLAlchemy_add_condition: filters.setdefault in place of the
\* assignment, a key added before keeps its condition
SQLAlchemy_add_condition_setdefault(self, filter_key, definition) ==
    LET property_ref == getattr(self.property_ref_impl, definition.ref)
        stored == BuildAndStore(self, filter_key, definition.ref,
                                definition.operator, definition.value)
    IN IF property_ref = NoPropertyRef
       THEN AddRaise(self, "Invalid PropertyRef", filter_key, <<>>)
       ELSE IF PropertyRefUtils_validate_operator(
                   property_ref, definition.operator).raised
       THEN AddRaise(self, "Operator is not supported", filter_key, <<>>)
       ELSE IF filter_key \in DOMAIN self.filters /\ ~stored.result.raised
       THEN AddReturned(self, stored.result.calls)
       ELSE stored

\* SQLAlchemyContextAdapter.add_condition
SQLAlchemy_add_condition(self, filter_key, definition) ==
    LET property_ref == getattr(self.property_ref_impl, definition.ref) IN
    IF property_ref = NoPropertyRef
    THEN AddRaise(self, "Invalid PropertyRef", filter_key, <<>>)
    ELSE IF PropertyRefUtils_validate_operator(
                property_ref, definition.operator).raised
    THEN AddRaise(self, "Operator is not supported", filter_key, <<>>)
    ELSE BuildAndStore(self, filter_key, definition.ref,
                       definition.operator, definition.value)

\* DjangoContextAdapter.add_condition; definition.ref is the property
\* reference itself, here by its name in the declarations
Django_add_condition(self, filter_key, definition) ==
    LET property_ref == getattr(self.property_ref_impl, definition.ref)
        op == _parse_operator(definition.operator)
    IN
    IF op = "None"
    THEN AddRaise(self, "Invalid operator", filter_key, <<>>)
    ELSE IF property_ref = NoPropertyRef
    THEN AddRaise(self, "AttributeError", filter_key, <<>>)
    ELSE IF validate_operator(property_ref, op).raised
    THEN AddRaise(self, "Operator is not supported", filter_key, <<>>)
    ELSE BuildAndStore(self, filter_key, definition.ref, op,
                       definition.value)

add_condition(self, filter_key, definition) ==
    IF self.class = "SQLAlchemyContextAdapter"
    THEN SQLAlchemy_add_condition(self, filter_key, definition)
    ELSE Django_add_condition(self, filter_key, definition)

(***************************************************************************)
(* State.  Each component is exercised by calls of its own: a DSLParser     *)
(* call (the caller's argument, the position in parse, the locals handed    *)
(* from phase to phase, the outcome), a parse_operator call, a              *)
(* PropertyRefImpl method call, and a FilterTree.generate call.             *)
(***************************************************************************)
VARIABLES
    entry,           \* the method the caller invoked: "parse" or "_tokenize"
    dsl_expression,  \* its argument
    pc,              \* "call", "_parse_expression", "_parse_tokens",
                     \* "_build_expression_tree", "done"
    trimmed,         \* the string handed to _tokenize
    tokens,          \* the token list of _parse_expression
    postfix,         \* the postfix list of _parse_tokens
    result,          \* what the call returned or raised
    remembered,      \* an earlier call of this parser and its outcome
    value,           \* the argument of parse_operator
    op_pc,           \* "call" or "done"
    op_result,       \* what parse_operator returned or raised
    ref,             \* a PropertyRefImpl instance
    method,          \* "supports_operator" or "validate_operator"
    operator,        \* the argument of the method
    prop_pc,         \* "call" or "done"
    prop_result,     \* what the method returned or raised
    filter_tree,     \* the FilterTree generate is called on
    context,         \* the Context passed to generate
    gen_pc,          \* "call" or "done"
    gen_result,      \* what generate returned or raised
    cond_self,       \* the Condition a combinator is called on
    cond_other,      \* the argument of and_ / or_
    cond_method,     \* "and_", "or_" or "not_"
    cond_pc,         \* "call" or "done"
    cond_result,     \* what the combinator returned or raised
    gen_remembered,  \* an earlier generate call on the tree and its outcome
    adapter,         \* a context adapter: its class, filters and builder
    ctx_call,        \* the last call made on it: method, key, definition
    ctx_result,      \* what that call returned or raised
    ctx_count,       \* the number of calls made on the adapter
    added,           \* per key, the definition of the last add_condition
                     \* call that returned and the number of such calls
    service,         \* the filter service execute_filter is called on
    filter_request,  \* its argument: filters and combine_with
    svc_pc,          \* "parse", "context", "generate", "execute", "done"
    built,           \* the builder calls made while the context was made
    svc_result,      \* what execute_filter returned or raised
    loop             \* the loop _parse_tokens is in: phase, index, output,
                     \* operator stack, node stack, and per token how often
                     \* it was read, pushed and popped

parserVars ==
    <<entry, dsl_expression, pc, trimmed, tokens, postfix, result>>
operatorVars == <<value, op_pc, op_result>>
propertyVars == <<ref, method, operator, prop_pc, prop_result>>
generateVars == <<filter_tree, context, gen_pc, gen_result>>
conditionVars == <<cond_self, cond_other, cond_method, cond_pc, cond_result>>
contextVars == <<adapter, ctx_call, ctx_result, ctx_count, added>>
serviceVars == <<service, filter_request, svc_pc, built, svc_result>>
adapterVars ==
    <<conditionVars, gen_remembered, contextVars, serviceVars, loop>>
vars == <<parserVars, remembered, operatorVars, propertyVars, generateVars,
          adapterVars>>

Pending == [kind |-> "pending", tree |-> NoTree, error |-> NoError]
Raised(error) == [kind |-> "error", tree |-> NoTree, error |-> error]
ReturnedTree(t) == [kind |-> "tree", tree |-> t, error |-> NoError]
ReturnedTokens == [kind |-> "tokens", tree |-> NoTree, error |-> NoError]

notParser == <<operatorVars, propertyVars, generateVars, adapterVars>>

NoCall == [called |-> FALSE, entry |-> "", dsl_expression |-> <<>>,
           result |-> Pending, later |-> 0]

\* no parser call, no parse_operator call, ... in this run
ParserIdle ==
    /\ entry = "parse"
    /\ dsl_expression = None
    /\ pc = "idle"
    /\ trimmed = <<>>
    /\ tokens = <<>>
    /\ postfix = <<>>
    /\ result = Pending
    /\ remembered = NoCall
OperatorIdle ==
    /\ value = None
    /\ op_pc = "idle"
    /\ op_result = NotCalled
PropertyIdle ==
    /\ ref = PropertyRefImpl("string", <<>>)
    /\ method = ""
    /\ operator = ""
    /\ prop_pc = "idle"
    /\ prop_result = NotCalled
GenerateIdle ==
    /\ filter_tree = NoTree
    /\ context = [class |-> "", filters |-> <<>>]
    /\ gen_pc = "idle"
    /\ gen_result = GenNotCalled
ConditionIdle ==
    /\ cond_self = NoCondition
    /\ cond_other = NoCondition
    /\ cond_method = ""
    /\ cond_pc = "idle"
    /\ cond_result = GenNotCalled
NoGenerate ==
    [called |-> FALSE, context |-> [class |-> "", filters |-> <<>>],
     result |-> GenNotCalled, later |-> 0, others |-> 0]
NoDefinition == FilterDefinition("", "", "")
NoContextCall == [method |-> "", key |-> <<>>, definition |-> NoDefinition]
ContextIdle ==
    /\ adapter = [class |-> "", filters |-> <<>>, builder |-> "",
                  property_ref_impl |-> <<>>]
    /\ ctx_call = NoContextCall
    /\ ctx_result = GenNotCalled
    /\ ctx_count = 0
    /\ added = <<>>
NoRequest == [filters |-> <<>>, combine_with |-> None]
ServiceIdle ==
    /\ service = ""
    /\ filter_request = NoRequest
    /\ svc_pc = "idle"
    /\ built = <<>>
    /\ svc_result = NotCalled
NoLoop ==
    [phase |-> "idle", i |-> 0, output |-> <<>>, operators |-> <<>>,
     stack |-> <<>>, read |-> <<>>, used |-> <<>>, pushed |-> <<>>,
     popped |-> <<>>]
LoopIdle == loop = NoLoop
AdapterIdle ==
    /\ ConditionIdle
    /\ gen_remembered = NoGenerate
    /\ ContextIdle
    /\ ServiceIdle
    /\ LoopIdle

\* a caller about to call parse, or _tokenize, on one of Strings
Init ==
    /\ dsl_expression \in Strings(MaxLen, MaxParenLen, MaxTokens, MaxUnicodeLen) \cup {None}
    /\ entry \in {"parse", "_tokenize"}
    /\ entry = "_tokenize" => dsl_expression # None
    /\ pc = "call"
    /\ trimmed = <<>>
    /\ tokens = <<>>
    /\ postfix = <<>>
    /\ result = Pending
    /\ remembered = NoCall
    /\ OperatorIdle
    /\ PropertyIdle
    /\ GenerateIdle
    /\ AdapterIdle

\* mutant of parse: the test of the stripped string left out of the check
parse_unstripped ==
    /\ pc = "call"
    /\ entry = "parse"
    /\ IF dsl_expression = None \/ dsl_expression = <<>>
       THEN /\ result' = Raised(DSLSyntaxException(
                             "DSL expression cannot be null or empty"))
            /\ pc' = "done"
            /\ UNCHANGED trimmed
       ELSE /\ trimmed' = strip(dsl_expression)
            /\ pc' = "_parse_expression"
            /\ UNCHANGED result
    /\ UNCHANGED <<entry, dsl_expression, tokens, postfix>>
    /\ UNCHANGED <<remembered, notParser>>

\* DSLParser.parse: the emptiness check and the strip
parse ==
    /\ pc = "call"
    /\ entry = "parse"
    /\ IF dsl_expression = None \/ dsl_expression = <<>>
          \/ strip(dsl_expression) = <<>>
       THEN /\ result' = Raised(DSLSyntaxException(
                             "DSL expression cannot be null or empty"))
            /\ pc' = "done"
            /\ UNCHANGED trimmed
       ELSE /\ trimmed' = strip(dsl_expression)
            /\ pc' = "_parse_expression"
            /\ UNCHANGED result
    /\ UNCHANGED <<entry, dsl_expression, tokens, postfix>>
    /\ UNCHANGED <<remembered, notParser>>

\* a direct call of DSLParser._tokenize, as the tests make
call_tokenize ==
    /\ pc = "call"
    /\ entry = "_tokenize"
    /\ trimmed' = dsl_expression
    /\ pc' = "_parse_expression"
    /\ UNCHANGED <<entry, dsl_expression, tokens, postfix, result>>
    /\ UNCHANGED <<remembered, notParser>>

\* mutant of _parse_expression: the token list kept on the instance and
\* extended by each call
_parse_expression_stale ==
    /\ pc = "_parse_expression"
    /\ LET r == _tokenize(trimmed) IN
       IF ~r.ok
       THEN /\ result' = Raised(r.error)
            /\ pc' = "done"
            /\ UNCHANGED tokens
       ELSE /\ tokens' = tokens \o r.tokens
            /\ IF entry = "_tokenize"
               THEN result' = ReturnedTokens /\ pc' = "done"
               ELSE pc' = "_parse_tokens" /\ UNCHANGED result
    /\ UNCHANGED <<entry, dsl_expression, trimmed, postfix>>
    /\ UNCHANGED <<remembered, notParser>>

\* DSLParser._parse_expression, line 38: tokens = self._tokenize(expression)
_parse_expression ==
    /\ pc = "_parse_expression"
    /\ LET r == _tokenize(trimmed) IN
       IF ~r.ok
       THEN /\ result' = Raised(r.error)
            /\ pc' = "done"
            /\ UNCHANGED tokens
       ELSE /\ tokens' = r.tokens
            /\ IF entry = "_tokenize"
               THEN result' = ReturnedTokens /\ pc' = "done"
               ELSE pc' = "_parse_tokens" /\ UNCHANGED result
    /\ UNCHANGED <<entry, dsl_expression, trimmed, postfix>>
    /\ UNCHANGED <<remembered, notParser>>

\* DSLParser._parse_tokens up to the postfix conversion
_parse_tokens ==
    /\ pc = "_parse_tokens"
    /\ IF tokens = <<>>
       THEN /\ result' = Raised(DSLSyntaxException("Empty expression"))
            /\ pc' = "done"
            /\ UNCHANGED postfix
       ELSE LET r == _infix_to_postfix(tokens) IN
            IF ~r.ok
            THEN /\ result' = Raised(r.error)
                 /\ pc' = "done"
                 /\ UNCHANGED postfix
            ELSE /\ postfix' = r.output
                 /\ pc' = "_build_expression_tree"
                 /\ UNCHANGED result
    /\ UNCHANGED <<entry, dsl_expression, trimmed, tokens>>
    /\ UNCHANGED <<remembered, notParser>>

\* DSLParser._parse_tokens, line 96: the tree built from the postfix list
build_tree ==
    /\ pc = "_build_expression_tree"
    /\ LET r == _build_expression_tree(postfix) IN
       result' = IF r.ok THEN ReturnedTree(r.tree) ELSE Raised(r.error)
    /\ pc' = "done"
    /\ UNCHANGED <<entry, dsl_expression, trimmed, tokens, postfix>>
    /\ UNCHANGED <<remembered, notParser>>

Next ==
    \/ parse
    \/ call_tokenize
    \/ _parse_expression
    \/ _parse_tokens
    \/ build_tree

Spec == Init /\ [][Next]_vars

(***************************************************************************)
(* Repeated calls on one DSLParser instance.  A call leaves the locals of   *)
(* the phases as they were; the next call starts from them.                 *)
(***************************************************************************)
RepeatAlphabet == {"a", "&", "("}
RepeatStrings == StringsUpTo(RepeatAlphabet, MaxRepeatLen) \cup {None}

InitRepeat ==
    /\ entry = "parse"
    /\ dsl_expression \in RepeatStrings
    /\ pc = "call"
    /\ trimmed = <<>>
    /\ tokens = <<>>
    /\ postfix = <<>>
    /\ result = Pending
    /\ remembered = NoCall
    /\ OperatorIdle
    /\ PropertyIdle
    /\ GenerateIdle
    /\ AdapterIdle

\* the caller keeps the outcome of the call that has just ended
remember ==
    /\ pc = "done"
    /\ ~remembered.called
    /\ remembered' = [called |-> TRUE, entry |-> entry,
                      dsl_expression |-> dsl_expression, result |-> result,
                      later |-> 0]
    /\ UNCHANGED <<parserVars, notParser>>

\* the caller calls parse again on the same instance (remembered.later
\* counts, up to 2, the calls made since the remembered one)
call_again ==
    /\ pc = "done"
    /\ \E e \in RepeatStrings : dsl_expression' = e
    /\ pc' = "call"
    /\ result' = Pending
    /\ remembered' = IF remembered.called /\ remembered.later < 2
                     THEN [remembered EXCEPT !.later = @ + 1]
                     ELSE remembered
    /\ UNCHANGED <<entry, trimmed, tokens, postfix, notParser>>

NextRepeat ==
    \/ parse
    \/ _parse_expression
    \/ _parse_tokens
    \/ build_tree
    \/ remember
    \/ call_again

SpecRepeat == InitRepeat /\ [][NextRepeat]_vars

(***************************************************************************)
(* parse_operator calls.                                                    *)
(***************************************************************************)
lowerChar(ch) == IF \E i \in 1..Len(UpperSeq) : UpperSeq[i] = ch
                 THEN LowerSeq[CHOOSE i \in 1..Len(UpperSeq) : UpperSeq[i] = ch]
                 ELSE ch

\* every upper/lower/mixed-case spelling of a symbol
RECURSIVE Spellings(_)
Spellings(symbol) ==
    IF symbol = <<>> THEN {<<>>}
    ELSE {<<ch>> \o rest :
            ch \in {Head(symbol), lowerChar(Head(symbol))},
            rest \in Spellings(Tail(symbol))}

Pads(n) == StringsUpTo({" ", "\t"}, n)
OperatorAlphabet == {"=", "!", "<", ">", "I", "n", " "}

\* the texts parse_operator is called with
OperatorTexts(pad, len) ==
    UNION {{l \o t \o r :
              l \in Pads(pad), t \in Spellings(Operator[i].value),
              r \in Pads(pad)} :
           i \in 1..Len(Operator)}
    \cup StringsUpTo(OperatorAlphabet, len)
    \cup {None, <<" ", " ", " ">>,
          <<"I", "N", "V", "A", "L", "I", "D">>,
          <<" ", "L", "I", "K", "E", " ">>}

InitOperator ==
    /\ value \in OperatorTexts(MaxPad, MaxOperatorLen)
    /\ op_pc = "call"
    /\ op_result = NotCalled
    /\ ParserIdle
    /\ PropertyIdle
    /\ GenerateIdle
    /\ AdapterIdle

call_parse_operator ==
    /\ op_pc = "call"
    /\ op_result' = parse_operator(value)
    /\ op_pc' = "done"
    /\ UNCHANGED <<value, parserVars, remembered, propertyVars, generateVars,
                   adapterVars>>

NextOperator == call_parse_operator

SpecOperator == InitOperator /\ [][NextOperator]_vars

(***************************************************************************)
(* PropertyRefImpl method calls.                                            *)
(***************************************************************************)
\* lists of at most n operators
OperatorLists(n) == StringsUpTo(OperatorNames, n)

InitProperty ==
    /\ ref \in {PropertyRefImpl("string", l) : l \in OperatorLists(MaxSupported)}
    /\ method \in {"supports_operator", "validate_operator"}
    /\ operator \in OperatorNames
    /\ prop_pc = "call"
    /\ prop_result = NotCalled
    /\ ParserIdle
    /\ OperatorIdle
    /\ GenerateIdle
    /\ AdapterIdle

call_supports_operator ==
    /\ prop_pc = "call"
    /\ method = "supports_operator"
    /\ prop_result' = Returned(IF supports_operator(ref, operator)
                                THEN "True" ELSE "False")
    /\ prop_pc' = "done"
    /\ UNCHANGED <<ref, method, operator>>
    /\ UNCHANGED <<parserVars, remembered, operatorVars, generateVars,
                   adapterVars>>

call_validate_operator ==
    /\ prop_pc = "call"
    /\ method = "validate_operator"
    /\ prop_result' = validate_operator(ref, operator)
    /\ prop_pc' = "done"
    /\ UNCHANGED <<ref, method, operator>>
    /\ UNCHANGED <<parserVars, remembered, operatorVars, generateVars,
                   adapterVars>>

NextProperty ==
    \/ call_supports_operator
    \/ call_validate_operator

SpecProperty == InitProperty /\ [][NextProperty]_vars

(***************************************************************************)
(* FilterTree.generate calls.                                               *)
(***************************************************************************)
FilterKeys == {<<"a">>, <<"b">>, <<"c">>}
knownFilter == <<"k", "n", "o", "w", "n", "F", "i", "l", "t", "e", "r">>
missingFilter ==
    <<"m", "i", "s", "s", "i", "n", "g", "F", "i", "l", "t", "e", "r">>

\* the trees with exactly n nodes over FilterKeys
RECURSIVE TreesOfSize(_)
TreesOfSize(n) ==
    IF n = 1 THEN {IdentifierNode(k) : k \in FilterKeys}
    ELSE {NotNode(t) : t \in TreesOfSize(n - 1)}
         \cup UNION {{AndNode(l, r) : l \in TreesOfSize(k),
                                      r \in TreesOfSize(n - 1 - k)}
                     \cup {OrNode(l, r) : l \in TreesOfSize(k),
                                          r \in TreesOfSize(n - 1 - k)} :
                     k \in 1..(n - 2)}

\* the tree parse returns for a string it accepts
TreeOf(s) ==
    _build_expression_tree(
        _infix_to_postfix(_tokenize(strip(s)).tokens).output).tree

\* the trees of at most n nodes, and the trees of two expressions
FilterTrees(n) ==
    UNION {TreesOfSize(k) : k \in 1..n}
    \cup {TreeOf(knownFilter \o <<" ", "&", " ">> \o missingFilter),
          TreeOf(<<"!">> \o missingFilter \o <<"|">> \o knownFilter)}

ContextClasses == {"SQLAlchemyContextAdapter", "DjangoContextAdapter"}

\* a context adapter of class cl holding the conditions built for keys
ContextWith(cl, keys) ==
    [class |-> cl,
     filters |-> [k \in keys |->
                    Condition(ConditionClassOf(cl), IdentifierNode(k))]]

Contexts ==
    {ContextWith(cl, keys) :
        cl \in ContextClasses,
        keys \in SUBSET FilterKeys \cup {{knownFilter}}}

InitGenerate ==
    /\ filter_tree \in FilterTrees(MaxNodes)
    /\ context \in Contexts
    /\ gen_pc = "call"
    /\ gen_result = GenNotCalled
    /\ ParserIdle
    /\ OperatorIdle
    /\ PropertyIdle
    /\ AdapterIdle

\* mutant of call_generate: the tree keeps the condition it generated and
\* returns it to later calls
call_generate_memo ==
    /\ gen_pc = "call"
    /\ gen_result' = IF gen_result.error # "pending" /\ ~gen_result.raised
                      THEN gen_result
                      ELSE generate(filter_tree, context)
    /\ gen_pc' = "done"
    /\ UNCHANGED <<filter_tree, context>>
    /\ UNCHANGED <<parserVars, remembered, operatorVars, propertyVars,
                   adapterVars>>

call_generate ==
    /\ gen_pc = "call"
    /\ gen_result' = generate(filter_tree, context)
    /\ gen_pc' = "done"
    /\ UNCHANGED <<filter_tree, context>>
    /\ UNCHANGED <<parserVars, remembered, operatorVars, propertyVars,
                   adapterVars>>

NextGenerate == call_generate

SpecGenerate == InitGenerate /\ [][NextGenerate]_vars

(***************************************************************************)
(* Repeated generate calls on one tree.  The caller's result variable       *)
(* keeps the outcome of the call before until the next call returns.        *)
(***************************************************************************)
InitGenerateRepeat ==
    /\ filter_tree \in UNION {TreesOfSize(k) : k \in 1..MaxRepeatNodes}
    /\ context \in Contexts
    /\ gen_pc = "call"
    /\ gen_result = GenNotCalled
    /\ ParserIdle
    /\ OperatorIdle
    /\ PropertyIdle
    /\ AdapterIdle

\* the caller keeps the context and the outcome of the call that has ended
generate_remember ==
    /\ gen_pc = "done"
    /\ ~gen_remembered.called
    /\ gen_remembered' = [called |-> TRUE, context |-> context,
                          result |-> gen_result, later |-> 0, others |-> 0]
    /\ UNCHANGED <<generateVars, conditionVars, contextVars, serviceVars,
                   loop>>
    /\ UNCHANGED <<parserVars, remembered, operatorVars, propertyVars>>

\* the caller calls generate on the tree again, with the same or another
\* context (later counts, up to 2, the calls made since the remembered
\* one, others those of them made with another context)
generate_again ==
    /\ gen_pc = "done"
    /\ \E ctx \in Contexts :
          /\ context' = ctx
          /\ gen_remembered' =
                IF gen_remembered.called /\ gen_remembered.later < 2
                THEN [gen_remembered EXCEPT
                        !.later = @ + 1,
                        !.others = IF ctx # gen_remembered.context
                                   THEN @ + 1 ELSE @]
                ELSE gen_remembered
    /\ gen_pc' = "call"
    /\ UNCHANGED <<filter_tree, gen_result, conditionVars, contextVars,
                   serviceVars, loop>>
    /\ UNCHANGED <<parserVars, remembered, operatorVars, propertyVars>>

NextGenerateRepeat ==
    \/ call_generate
    \/ generate_remember
    \/ generate_again

SpecGenerateRepeat == InitGenerateRepeat /\ [][NextGenerateRepeat]_vars

(***************************************************************************)
(* add_condition and get_condition calls on one context adapter.            *)
(***************************************************************************)
Builders == {"Mock", "Example"}
DefinitionRefs == {"USER_NAME", "USER_AGE", "INVALID_PROPERTY"}
DefinitionOperators == {"EQUALS", "GREATER_THAN", "IN", "BETWEEN"}
DefinitionValues == {"scalar", "list2", "list3"}
Definitions ==
    {FilterDefinition(r, op, v) :
        r \in DefinitionRefs, op \in DefinitionOperators,
        v \in DefinitionValues}
AddKeys == {<<"a">>, <<"b">>}

\* SQLAlchemyContextAdapter(builder, TestPropertyRefImpl) /
\* DjangoContextAdapter(builder): no filters yet
InitContext ==
    /\ adapter \in {[class |-> cl, filters |-> <<>>, builder |-> b,
                     property_ref_impl |-> TestPropertyRefImpl] :
                       cl \in ContextClasses, b \in Builders}
    /\ ctx_call = NoContextCall
    /\ ctx_result = GenNotCalled
    /\ ctx_count = 0
    /\ added = <<>>
    /\ ConditionIdle
    /\ gen_remembered = NoGenerate
    /\ ServiceIdle
    /\ LoopIdle
    /\ ParserIdle
    /\ OperatorIdle
    /\ PropertyIdle
    /\ GenerateIdle

notContext ==
    <<parserVars, remembered, operatorVars, propertyVars, generateVars,
      conditionVars, gen_remembered, serviceVars, loop>>

call_add_condition ==
    /\ ctx_count < MaxCalls
    /\ \E filter_key \in AddKeys, definition \in Definitions :
          LET r == add_condition(adapter, filter_key, definition) IN
          /\ adapter' = r.self
          /\ ctx_result' = r.result
          /\ ctx_call' = [method |-> "add_condition", key |-> filter_key,
                          definition |-> definition]
          /\ added' = IF r.result.raised THEN added
                      ELSE DictSet(added, filter_key,
                               [definition |-> definition,
                                times |-> IF filter_key \in DOMAIN added
                                          THEN added[filter_key].times + 1
                                          ELSE 1])
    /\ ctx_count' = ctx_count + 1
    /\ UNCHANGED notContext

call_get_condition ==
    /\ ctx_count < MaxCalls
    /\ \E filter_key \in AddKeys :
          /\ ctx_result' = get_condition(adapter, filter_key)
          /\ ctx_call' = [method |-> "get_condition", key |-> filter_key,
                          definition |-> NoDefinition]
    /\ ctx_count' = ctx_count + 1
    /\ UNCHANGED <<adapter, added, notContext>>

NextContext ==
    \/ call_add_condition
    \/ call_get_condition

SpecContext == InitContext /\ [][NextContext]_vars

(***************************************************************************)
(* Combinator calls on the Condition classes of the adapters.               *)
(***************************************************************************)
ConditionClasses ==
    {"DjangoConditionAdapter", "SQLAlchemyConditionAdapter",
     "DjangoCondition", "SQLAlchemyCondition"}

\* the conditions of every class wrapping a fragment of at most n nodes
Conditions(n) ==
    {Condition(cl, q) :
        cl \in ConditionClasses,
        q \in UNION {TreesOfSize(k) : k \in 1..n}}

InitCombine ==
    /\ cond_self \in Conditions(MaxFragmentNodes)
    /\ cond_method \in {"and_", "or_", "not_"}
    /\ IF cond_method = "not_"
       THEN cond_other = NoCondition
       ELSE cond_other \in Conditions(MaxFragmentNodes) \cup {NoCondition}
    /\ cond_pc = "call"
    /\ cond_result = GenNotCalled
    /\ gen_remembered = NoGenerate
    /\ ContextIdle
    /\ ServiceIdle
    /\ LoopIdle
    /\ ParserIdle
    /\ OperatorIdle
    /\ PropertyIdle
    /\ GenerateIdle

notCondition ==
    <<parserVars, remembered, operatorVars, propertyVars, generateVars,
      gen_remembered, contextVars, serviceVars, loop>>

call_and_ ==
    /\ cond_pc = "call"
    /\ cond_method = "and_"
    /\ cond_result' = and_(cond_self, cond_other)
    /\ cond_pc' = "done"
    /\ UNCHANGED <<cond_self, cond_other, cond_method, notCondition>>

call_or_ ==
    /\ cond_pc = "call"
    /\ cond_method = "or_"
    /\ cond_result' = or_(cond_self, cond_other)
    /\ cond_pc' = "done"
    /\ UNCHANGED <<cond_self, cond_other, cond_method, notCondition>>

call_not_ ==
    /\ cond_pc = "call"
    /\ cond_method = "not_"
    /\ cond_result' = not_(cond_self)
    /\ cond_pc' = "done"
    /\ UNCHANGED <<cond_self, cond_other, cond_method, notCondition>>

NextCombine ==
    \/ call_and_
    \/ call_or_
    \/ call_not_

SpecCombine == InitCombine /\ [][NextCombine]_vars

(***************************************************************************)
(* A direct call of DSLParser._build_expression_tree on a token list.       *)
(***************************************************************************)
PostfixTokens ==
    {Token("IDENTIFIER", <<"a">>), Token("IDENTIFIER", <<"b">>),
     Token("NOT", <<"!">>), Token("AND", <<"&">>), Token("OR", <<"|">>),
     Token("LEFT_PAREN", <<"(">>)}

InitBuild ==
    /\ entry = "_build_expression_tree"
    /\ postfix \in StringsUpTo(PostfixTokens, MaxPostfix)
    /\ pc = "_build_expression_tree"
    /\ dsl_expression = None
    /\ trimmed = <<>>
    /\ tokens = <<>>
    /\ result = Pending
    /\ remembered = NoCall
    /\ OperatorIdle
    /\ PropertyIdle
    /\ GenerateIdle
    /\ AdapterIdle

NextBuild == build_tree

SpecBuild == InitBuild /\ [][NextBuild]_vars

(***************************************************************************)
(* generate calls on one tree interleaved with add_condition and            *)
(* get_condition calls on the context adapter the tree is generated         *)
(* against.                                                                 *)
(***************************************************************************)
SharedTrees ==
    {IdentifierNode(<<"a">>), NotNode(IdentifierNode(<<"a">>)),
     AndNode(IdentifierNode(<<"a">>), IdentifierNode(<<"b">>))}

SharedDefinitions ==
    {FilterDefinition(r, op, "scalar") :
        r \in {"USER_NAME", "USER_AGE"}, op \in {"EQUALS", "GREATER_THAN"}}

InitShared ==
    /\ adapter \in {[class |-> cl, filters |-> <<>>, builder |-> b,
                     property_ref_impl |-> TestPropertyRefImpl] :
                       cl \in ContextClasses, b \in Builders}
    /\ ctx_call = NoContextCall
    /\ ctx_result = GenNotCalled
    /\ ctx_count = 0
    /\ added = <<>>
    /\ filter_tree \in SharedTrees
    /\ context = [class |-> "", filters |-> <<>>]
    /\ gen_pc = "call"
    /\ gen_result = GenNotCalled
    /\ gen_remembered = NoGenerate
    /\ ConditionIdle
    /\ ServiceIdle
    /\ LoopIdle
    /\ ParserIdle
    /\ OperatorIdle
    /\ PropertyIdle

\* filter_tree.generate(adapter); the caller keeps the outcome of the first
\* generation
generate_shared ==
    /\ gen_remembered.later < 1
    /\ LET r == generate(filter_tree, adapter) IN
       /\ gen_result' = r
       /\ gen_remembered' =
             IF ~gen_remembered.called
             THEN [called |-> TRUE, context |-> adapter, result |-> r,
                   later |-> 0, others |-> 0]
             ELSE [gen_remembered EXCEPT !.later = @ + 1]
    /\ context' = adapter
    /\ gen_pc' = "done"
    /\ UNCHANGED <<filter_tree, contextVars, conditionVars, serviceVars,
                   loop>>
    /\ UNCHANGED <<parserVars, remembered, operatorVars, propertyVars>>

\* adapter.add_condition(filter_key, definition) by another caller
add_condition_shared ==
    /\ ctx_count < MaxCalls
    /\ \E filter_key \in AddKeys, definition \in SharedDefinitions :
          LET r == add_condition(adapter, filter_key, definition) IN
          /\ adapter' = r.self
          /\ ctx_result' = r.result
          /\ ctx_call' = [method |-> "add_condition", key |-> filter_key,
                          definition |-> definition]
          /\ added' = IF r.result.raised THEN added
                      ELSE DictSet(added, filter_key,
                               [definition |-> definition,
                                times |-> IF filter_key \in DOMAIN added
                                          THEN added[filter_key].times + 1
                                          ELSE 1])
    /\ ctx_count' = ctx_count + 1
    /\ UNCHANGED notContext

NextShared ==
    \/ add_condition_shared
    \/ call_get_condition
    \/ generate_shared

SpecShared == InitShared /\ [][NextShared]_vars

(***************************************************************************)
(* DjangoFilterService / SQLAlchemyFilterService.execute_filter: the        *)
(* expression parsed by the service's DSLParser, the lazy context made of   *)
(* the request's filters, the tree generated against it, the condition      *)
(* executed.                                                                *)
(***************************************************************************)
Services == {"DjangoFilterService", "SQLAlchemyFilterService"}
ContextClassOf(svc) ==
    IF svc = "DjangoFilterService"
    THEN "django_adapter.DjangoContextAdapter"
    ELSE "sqlalchemy_adapter.SQLAlchemyContextAdapter"

RequestKeys == {<<"a">>, <<"b">>}
RequestRefs == {"userName", "unknown"}
RequestOperators ==
    {<<"=">>, <<">">>, <<"I", "N">>, <<"B", "E", "T", "W", "E", "E", "N">>,
     <<"N", "O", "T", " ", "B", "E", "T", "W", "E", "E", "N">>,
     <<"I", "S", " ", "N", "U", "L", "L">>, <<"~">>}
RequestValues == {"scalar", "list0", "list2", "list3"}
RequestDefinitions ==
    {FilterDefinition(r, op, v) :
        r \in RequestRefs, op \in RequestOperators, v \in RequestValues}
RequestExpressions ==
    {<<"a">>, <<"b">>, <<"!", "a">>, <<"a", " ", "&", " ", "a">>,
     <<"a", " ", "&", " ", "b">>, <<"a", " ", "|", " ", "b">>,
     <<"a", " ", "&">>, <<"#">>}
FilterRequests ==
    {[filters |-> f, combine_with |-> e] :
        f \in UNION {[keys -> RequestDefinitions] :
                        keys \in SUBSET RequestKeys},
        e \in RequestExpressions}

\* DjangoContextAdapter(filters, property_registry): the two arguments are
\* kept; no call is made
LazyContextAdapter(cl, filters, property_registry) ==
    [self |-> [class |-> cl, filters |-> filters,
               property_registry |-> property_registry],
     calls |-> <<>>]

\* DjangoFilterExecutor.execute: the isinstance test, then the query
execute(svc, global_condition) ==
    IF global_condition.class # LazyConditionClassOf(ContextClassOf(svc))
    THEN Raise("Condition must be a backend condition")
    ELSE Returned("rows")

\* a service about to execute a request; its parser is about to be called
\* on combine_with
InitService ==
    /\ service \in Services
    /\ filter_request \in FilterRequests
    /\ svc_pc = "parse"
    /\ built = <<>>
    /\ svc_result = NotCalled
    /\ entry = "parse"
    /\ dsl_expression = filter_request.combine_with
    /\ pc = "call"
    /\ trimmed = <<>>
    /\ tokens = <<>>
    /\ postfix = <<>>
    /\ result = Pending
    /\ remembered = NoCall
    /\ OperatorIdle
    /\ PropertyIdle
    /\ GenerateIdle
    /\ ConditionIdle
    /\ gen_remembered = NoGenerate
    /\ ContextIdle
    /\ LoopIdle

notService ==
    <<parserVars, remembered, operatorVars, propertyVars, conditionVars,
      gen_remembered, contextVars, loop>>

\* execute_filter after self.parser.parse: an exception of parse leaves
\* execute_filter; otherwise the context is made
create_context ==
    /\ svc_pc = "parse"
    /\ pc = "done"
    /\ IF result.kind = "error"
       THEN /\ svc_result' = Raise(result.error.msg)
            /\ svc_pc' = "done"
            /\ UNCHANGED <<filter_tree, context, built>>
       ELSE LET c == LazyContextAdapter(ContextClassOf(service),
                                        filter_request.filters,
                                        UserPropertyRef)
            IN /\ filter_tree' = result.tree
               /\ context' = c.self
               /\ built' = c.calls
               /\ svc_pc' = "generate"
               /\ UNCHANGED svc_result
    /\ UNCHANGED <<service, filter_request, gen_pc, gen_result, notService>>

\* mutant of generate_condition: an exception of generate is swallowed and
\* the executor called all the same
generate_condition_swallowing ==
    /\ svc_pc = "generate"
    /\ gen_result' = generate(filter_tree, context)
    /\ svc_pc' = "execute"
    /\ gen_pc' = "done"
    /\ UNCHANGED <<service, filter_request, filter_tree, context, built,
                   svc_result, notService>>

\* global_condition = filter_tree.generate(context)
generate_condition ==
    /\ svc_pc = "generate"
    /\ LET r == generate(filter_tree, context) IN
       /\ gen_result' = r
       /\ IF r.raised
          THEN svc_result' = Raise(r.error) /\ svc_pc' = "done"
          ELSE svc_pc' = "execute" /\ UNCHANGED svc_result
    /\ gen_pc' = "done"
    /\ UNCHANGED <<service, filter_request, filter_tree, context, built,
                   notService>>

\* executor.execute(global_condition, entity_class)
call_execute ==
    /\ svc_pc = "execute"
    /\ svc_result' = execute(service, gen_result.cond)
    /\ svc_pc' = "done"
    /\ UNCHANGED <<service, filter_request, built, generateVars, notService>>

NextService ==
    \/ parse
    \/ _parse_expression
    \/ _parse_tokens
    \/ build_tree
    \/ create_context
    \/ generate_condition
    \/ call_execute

SpecService == InitService /\ [][NextService]_vars


(***************************************************************************)
(* parse with the loops of _infix_to_postfix and _build_expression_tree     *)
(* taken one iteration at a time.  A token on the operator stack or in the  *)
(* output carries the index it has in the token list.                       *)
(***************************************************************************)
StepAlphabet == {"a", " ", "&", "!", "(", ")"}

At(ts) ==
    [k \in 1..Len(ts) |->
        [type |-> ts[k].type, value |-> ts[k].value, at |-> k]]
Untagged(ts) == [k \in 1..Len(ts) |-> Token(ts[k].type, ts[k].value)]
Zeros(n) == [k \in 1..n |-> 0]
\* the counters f, each token of ts counted once more
Counted(f, ts) ==
    [k \in DOMAIN f |->
        f[k] + Cardinality({j \in 1..Len(ts) : ts[j].at = k})]

\* mutant of NextIndex: the iteration after a token skips one
NextIndexSkipping(i) == i + 2

\* for token in tokens: the index of the next iteration
NextIndex(i) == i + 1

\* one iteration of the loop of _build_expression_tree
BuildStep(token, stack) ==
    CASE token.type = "IDENTIFIER" ->
            [ok |-> TRUE, stack |-> Append(stack, IdentifierNode(token.value)),
             error |-> NoError]
      [] token.type = "NOT" ->
            IF stack = <<>>
            THEN [ok |-> FALSE, stack |-> stack,
                  error |-> BuildFail("Invalid expression: NOT operator without operand").error]
            ELSE [ok |-> TRUE,
                  stack |-> Append(Pop(stack), NotNode(Top(stack))),
                  error |-> NoError]
      [] token.type = "AND" ->
            IF Len(stack) < 2
            THEN [ok |-> FALSE, stack |-> stack,
                  error |-> BuildFail("Invalid expression: AND operator requires two operands").error]
            ELSE [ok |-> TRUE,
                  stack |-> Append(Pop(Pop(stack)),
                                   AndNode(Top(Pop(stack)), Top(stack))),
                  error |-> NoError]
      [] token.type = "OR" ->
            IF Len(stack) < 2
            THEN [ok |-> FALSE, stack |-> stack,
                  error |-> BuildFail("Invalid expression: OR operator requires two operands").error]
            ELSE [ok |-> TRUE,
                  stack |-> Append(Pop(Pop(stack)),
                                   OrNode(Top(Pop(stack)), Top(stack))),
                  error |-> NoError]
      [] OTHER -> [ok |-> TRUE, stack |-> stack, error |-> NoError]

InitSteps ==
    /\ dsl_expression \in StringsUpTo(StepAlphabet, MaxStepLen) \cup {None}
    /\ entry = "parse"
    /\ pc = "call"
    /\ trimmed = <<>>
    /\ tokens = <<>>
    /\ postfix = <<>>
    /\ result = Pending
    /\ remembered = NoCall
    /\ OperatorIdle
    /\ PropertyIdle
    /\ GenerateIdle
    /\ AdapterIdle

notSteps ==
    <<remembered, operatorVars, propertyVars, generateVars, conditionVars,
      gen_remembered, contextVars, serviceVars>>

\* _parse_tokens up to the call of _infix_to_postfix
_parse_tokens_begin ==
    /\ pc = "_parse_tokens"
    /\ loop.phase = "idle"
    /\ IF tokens = <<>>
       THEN /\ result' = Raised(DSLSyntaxException("Empty expression"))
            /\ pc' = "done"
            /\ loop' = [loop EXCEPT !.phase = "done"]
       ELSE /\ loop' = [NoLoop EXCEPT !.phase = "infix", !.i = 1,
                                      !.read = Zeros(Len(tokens)),
                                      !.pushed = Zeros(Len(tokens)),
                                      !.popped = Zeros(Len(tokens))]
            /\ UNCHANGED <<pc, result>>
    /\ UNCHANGED <<entry, dsl_expression, trimmed, tokens, postfix, notSteps>>

\* one iteration of the for loop of _infix_to_postfix
_infix_to_postfix_step ==
    /\ loop.phase = "infix"
    /\ loop.i <= Len(tokens)
    /\ LET token == At(tokens)[loop.i]
           read == Counted(loop.read, <<token>>)
       IN
       CASE token.type = "IDENTIFIER" ->
               /\ loop' = [loop EXCEPT !.i = NextIndex(@), !.read = read,
                                       !.output = Append(@, token)]
               /\ UNCHANGED <<pc, result>>
         [] token.type \in {"NOT", "LEFT_PAREN"} ->
               /\ loop' = [loop EXCEPT !.i = NextIndex(@), !.read = read,
                                       !.operators = Append(@, token),
                                       !.pushed = Counted(@, <<token>>)]
               /\ UNCHANGED <<pc, result>>
         [] token.type \in {"AND", "OR"} ->
               LET p == PopHigher(loop.output, loop.operators, token)
                   gone == SubSeq(loop.operators, Len(p.operators) + 1,
                                  Len(loop.operators))
               IN /\ loop' = [loop EXCEPT !.i = NextIndex(@), !.read = read,
                                          !.output = p.output,
                                          !.operators = Append(p.operators,
                                                               token),
                                          !.pushed = Counted(@, <<token>>),
                                          !.popped = Counted(@, gone)]
                  /\ UNCHANGED <<pc, result>>
         [] token.type = "RIGHT_PAREN" ->
               LET p == PopToParen(loop.output, loop.operators)
                   gone == SubSeq(loop.operators, Len(p.operators) + 1,
                                  Len(loop.operators))
               IN IF p.operators = <<>>
                  THEN /\ result' = Raised(DSLSyntaxException(
                                               "Mismatched parentheses"))
                       /\ pc' = "done"
                       /\ loop' = [loop EXCEPT !.phase = "done",
                                               !.read = read,
                                               !.output = p.output,
                                               !.operators = p.operators,
                                               !.popped = Counted(@, gone)]
                  ELSE /\ loop' = [loop EXCEPT
                                     !.i = NextIndex(@), !.read = read,
                                     !.output = p.output,
                                     !.operators = Pop(p.operators),
                                     !.popped = Counted(@,
                                         Append(gone, Top(p.operators)))]
                       /\ UNCHANGED <<pc, result>>
    /\ UNCHANGED <<entry, dsl_expression, trimmed, tokens, postfix, notSteps>>

\* the final while loop of _infix_to_postfix and its return to
\* _parse_tokens, which calls _build_expression_tree
_infix_to_postfix_drain ==
    /\ loop.phase = "infix"
    /\ loop.i > Len(tokens)
    /\ LET d == Drain(loop.output, loop.operators)
           parens == {k \in 1..Len(loop.operators) :
                         loop.operators[k].type = "LEFT_PAREN"}
       IN
       IF ~d.ok
       THEN /\ result' = Raised(d.error)
            /\ pc' = "done"
            /\ loop' = [loop EXCEPT
                          !.phase = "done",
                          !.operators = SubSeq(@, 1, Max(parens) - 1),
                          !.popped = Counted(@,
                              SubSeq(loop.operators, Max(parens),
                                     Len(loop.operators)))]
            /\ UNCHANGED postfix
       ELSE /\ postfix' = Untagged(d.output)
            /\ pc' = "_build_expression_tree"
            /\ loop' = [loop EXCEPT
                          !.phase = "build", !.i = 1,
                          !.output = d.output, !.operators = <<>>,
                          !.used = Zeros(Len(d.output)),
                          !.popped = Counted(@, loop.operators)]
            /\ UNCHANGED result
    /\ UNCHANGED <<entry, dsl_expression, trimmed, tokens, notSteps>>

\* one iteration of the for loop of _build_expression_tree
_build_expression_tree_step ==
    /\ loop.phase = "build"
    /\ loop.i <= Len(postfix)
    /\ LET b == BuildStep(postfix[loop.i], loop.stack)
           used == [loop.used EXCEPT ![loop.i] = @ + 1]
       IN
       IF ~b.ok
       THEN /\ result' = Raised(b.error)
            /\ pc' = "done"
            /\ loop' = [loop EXCEPT !.phase = "done", !.used = used]
       ELSE /\ loop' = [loop EXCEPT !.i = NextIndex(@), !.used = used,
                                    !.stack = b.stack]
            /\ UNCHANGED <<pc, result>>
    /\ UNCHANGED <<entry, dsl_expression, trimmed, tokens, postfix, notSteps>>

\* the end of _build_expression_tree: one node must remain
_build_expression_tree_end ==
    /\ loop.phase = "build"
    /\ loop.i > Len(postfix)
    /\ result' = IF Len(loop.stack) # 1
                 THEN Raised(BuildFail(
                          "Invalid expression: malformed syntax").error)
                 ELSE ReturnedTree(loop.stack[1])
    /\ pc' = "done"
    /\ loop' = [loop EXCEPT !.phase = "done"]
    /\ UNCHANGED <<entry, dsl_expression, trimmed, tokens, postfix, notSteps>>

NextSteps ==
    \/ parse
    \/ _parse_expression
    \/ _parse_tokens_begin
    \/ _infix_to_postfix_step
    \/ _infix_to_postfix_drain
    \/ _build_expression_tree_step
    \/ _build_expression_tree_end

\* the call runs on once started: the thread making it is not stopped
SpecSteps == InitSteps /\ [][NextSteps]_vars /\ WF_vars(NextSteps)

(***************************************************************************)
(* Properties of DSLParser.                                                 *)
(***************************************************************************)
IdA == IdentifierNode(<<"a">>)
IdB == IdentifierNode(<<"b">>)
IdC == IdentifierNode(<<"c">>)

\* parse has returned from a call on a sentence of the grammar
ParsedSentence ==
    /\ entry = "parse"
    /\ pc = "done"
    /\ dsl_expression # None
    /\ LexicallyPlain(dsl_expression)
    /\ WellFormed(RefTokens(dsl_expression))

\* C1: for every well-formed expression over identifiers, '!', '&' and '|',
\* parse returns the tree of the reference parser (NOT over AND over OR, AND
\* and OR left-associative); "!a & b | c" gives Or(And(Not(a), b), c) and
\* "a & b & c" gives And(And(a, b), c).
C1_Precedence ==
    /\ (ParsedSentence /\ NoParens(dsl_expression)) =>
           result = ReturnedTree(RefTree(RefTokens(dsl_expression)))
    /\ (entry = "parse" /\ pc = "done"
          /\ dsl_expression
               = <<"!", "a", " ", "&", " ", "b", " ", "|", " ", "c">>) =>
           result = ReturnedTree(OrNode(AndNode(NotNode(IdA), IdB), IdC))
    /\ (entry = "parse" /\ pc = "done"
          /\ dsl_expression = <<"a", " ", "&", " ", "b", " ", "&", " ", "c">>) =>
           result = ReturnedTree(AndNode(AndNode(IdA, IdB), IdC))

C1_Witness ==
    /\ ParsedSentence
    /\ dsl_expression = <<"!", "a", " ", "&", " ", "b", " ", "|", " ", "c">>
    /\ result.kind = "tree"

\* C2: parentheses override precedence: a well-formed expression with a
\* parenthesised group parses to the reference tree, the group being one
\* operand; "a & (b | c)" gives And(a, Or(b, c)), "a & b | c" gives
\* Or(And(a, b), c) and "!(a | b)" gives Not(Or(a, b)).
C2_Parentheses ==
    /\ (ParsedSentence /\ ~NoParens(dsl_expression)) =>
           result = ReturnedTree(RefTree(RefTokens(dsl_expression)))
    /\ (entry = "parse" /\ pc = "done"
          /\ dsl_expression
               = <<"a", " ", "&", " ", "(", "b", " ", "|", " ", "c", ")">>) =>
           result = ReturnedTree(AndNode(IdA, OrNode(IdB, IdC)))
    /\ (entry = "parse" /\ pc = "done"
          /\ dsl_expression = <<"a", " ", "&", " ", "b", " ", "|", " ", "c">>) =>
           result = ReturnedTree(OrNode(AndNode(IdA, IdB), IdC))
    /\ (entry = "parse" /\ pc = "done"
          /\ dsl_expression = <<"!", "(", "a", " ", "|", " ", "b", ")">>) =>
           result = ReturnedTree(NotNode(OrNode(IdA, IdB)))

C2_Witness ==
    /\ ParsedSentence
    /\ dsl_expression
         = <<"a", " ", "&", " ", "(", "b", " ", "|", " ", "c", ")">>
    /\ result.kind = "tree"

\* C3: on an input of identifier characters, operator characters and
\* whitespace, _tokenize returns, in input order, one token per operator
\* character and one IDENTIFIER per maximal run of identifier characters;
\* "(filter1 & filter2) | !filter3" gives the 8 tokens LPAREN, IDENT, AND,
\* IDENT, RPAREN, OR, NOT, IDENT.
C3_Tokens ==
    /\ (entry = "_tokenize" /\ pc = "done"
          /\ LexicallyPlain(dsl_expression)) =>
           /\ result.kind = "tokens"
           /\ tokens = RefTokens(dsl_expression)
    /\ (entry = "_tokenize" /\ pc = "done"
          /\ dsl_expression
               = <<"(", "f", "i", "l", "t", "e", "r", "1", " ", "&", " ",
                   "f", "i", "l", "t", "e", "r", "2", ")", " ", "|", " ",
                   "!", "f", "i", "l", "t", "e", "r", "3">>) =>
           /\ Len(tokens) = 8
           /\ [i \in 1..8 |-> tokens[i].type]
                = <<"LEFT_PAREN", "IDENTIFIER", "AND", "IDENTIFIER",
                    "RIGHT_PAREN", "OR", "NOT", "IDENTIFIER">>
           /\ tokens[2].value = <<"f", "i", "l", "t", "e", "r", "1">>
           /\ tokens[4].value = <<"f", "i", "l", "t", "e", "r", "2">>
           /\ tokens[8].value = <<"f", "i", "l", "t", "e", "r", "3">>

C3_Witness ==
    /\ entry = "_tokenize"
    /\ pc = "done"
    /\ Len(dsl_expression) = 30
    /\ Len(tokens) = 8

MismatchedParentheses == Raised(DSLSyntaxException("Mismatched parentheses"))

\* C4: a non-empty, lexically valid expression fails with the
\* mismatched-parentheses error exactly when its parentheses are unbalanced.
C4_Mismatched ==
    (entry = "parse" /\ pc = "done" /\ ~Blank(dsl_expression)
       /\ LexicallyPlain(dsl_expression)) =>
        (result = MismatchedParentheses <=> ~Balanced(dsl_expression))

C4_Witness ==
    /\ entry = "parse"
    /\ pc = "done"
    /\ dsl_expression = <<"(", "a", " ", "&", " ", "b">>
    /\ result = MismatchedParentheses

EmptyExpression ==
    Raised(DSLSyntaxException("DSL expression cannot be null or empty"))

\* C5: for None, the empty string and every whitespace-only string parse
\* fails with the empty-expression error, before any tokenizing, and returns
\* no tree.
C5_Empty ==
    (entry = "parse" /\ Blank(dsl_expression)) =>
        /\ pc \in {"call", "done"}
        /\ tokens = <<>>
        /\ pc = "done" => result = EmptyExpression

C5_Witness ==
    /\ entry = "parse"
    /\ pc = "done"
    /\ dsl_expression = <<" ", "\t", " ">>
    /\ result = EmptyExpression

(***************************************************************************)
(* Properties of generate, repeated parsing, parse_operator and             *)
(* PropertyRefImpl.                                                         *)
(***************************************************************************)
RECURSIVE Leaves(_)
Leaves(node) ==
    IF node.kind = "Identifier" THEN {node.identifier}
    ELSE UNION {Leaves(node.kids[i]) : i \in 1..Len(node.kids)}

\* the identifiers of the tree the context holds no condition for
MissingKeys == Leaves(filter_tree) \ DOMAIN context.filters

UnknownFilterKey ==
    {"No condition found for identifier", "No condition found for key"}

\* C6: when the context (conditions of one backend kind) lacks an identifier
\* of the tree, generate fails with the unknown-filter-key error naming an
\* absent identifier and returns no Condition, whether the context returns
\* None or raises; "knownFilter & missingFilter" against a context holding
\* only knownFilter names missingFilter.
C6_UnknownKey ==
    /\ (gen_pc = "done" /\ MissingKeys # {}) =>
           /\ gen_result.raised
           /\ gen_result.error \in UnknownFilterKey
           /\ gen_result.key \in MissingKeys
           /\ gen_result.cond = NoCondition
    /\ (gen_pc = "done"
          /\ filter_tree = AndNode(IdentifierNode(knownFilter),
                                   IdentifierNode(missingFilter))
          /\ DOMAIN context.filters = {knownFilter}) =>
           gen_result.raised /\ gen_result.key = missingFilter

C6_Witness ==
    /\ gen_pc = "done"
    /\ filter_tree = AndNode(IdentifierNode(knownFilter),
                             IdentifierNode(missingFilter))
    /\ context = ContextWith("SQLAlchemyContextAdapter", {knownFilter})
    /\ gen_result.raised
    /\ gen_result.error = "No condition found for identifier"
    /\ gen_result.key = missingFilter
    /\ gen_result.cond = NoCondition

IsSpellingOf(text, symbol) ==
    \E i \in 0..(Len(text) - Len(symbol)) :
        /\ \A k \in 1..i : text[k] \in WhitespaceChars
        /\ \A k \in (i + Len(symbol) + 1)..Len(text) :
               text[k] \in WhitespaceChars
        /\ \A k \in 1..Len(symbol) :
               text[i + k] \in {symbol[k], lowerChar(symbol[k])}

\* C8: for each of the 14 operators op, parse_operator gives op for op's
\* symbol, for every lower/mixed-case spelling of it, and for the symbol
\* padded with leading and trailing whitespace.
C8_RoundTrip ==
    (op_pc = "done" /\ value # None) =>
        \A i \in 1..Len(Operator) :
            IsSpellingOf(value, Operator[i].value) =>
                op_result = Returned(Operator[i].name)

C8_Witness ==
    /\ op_pc = "done"
    /\ value = <<" ", "l", "i", "K", "e", "\t">>
    /\ op_result = Returned("LIKE")

\* the operators whose symbol is the trimmed, upper-cased text or the raw text
SymbolMatches(text) ==
    {i \in 1..Len(Operator) :
        /\ text # None
        /\ \/ Operator[i].value = upper(strip(text))
           \/ Operator[i].value = text}

\* C9: parse_operator never raises for a string or None; it returns None for
\* every text that, trimmed and upper-cased, is no operator symbol (None, "",
\* whitespace only, "INVALID"), and returns an operator only when the
\* trimmed, upper-cased text or the raw text is that operator's symbol.
C9_NotFound ==
    op_pc = "done" =>
        /\ ~op_result.raised
        /\ SymbolMatches(value) = {} => op_result = Returned("None")
        /\ op_result.value # "None" =>
               \E i \in SymbolMatches(value) :
                   Operator[i].name = op_result.value
        /\ value \in {None, <<>>, <<" ", " ", " ">>,
                      <<"I", "N", "V", "A", "L", "I", "D">>} =>
               op_result = Returned("None")

C9_Witness ==
    /\ op_pc = "done"
    /\ value = <<"I", "N", "V", "A", "L", "I", "D">>
    /\ op_result = Returned("None")

\* C10: supports_operator(op) is true exactly when op is in
\* supported_operators; validate_operator(op) raises exactly when op is not
\* supported and otherwise returns, the property reference unchanged; a
\* property declared with [EQUALS, LIKE] rejects GREATER_THAN and accepts
\* EQUALS and LIKE.
C10_Gate ==
    [][(prop_pc = "call" /\ prop_pc' = "done") =>
          /\ ref' = ref
          /\ method = "supports_operator" =>
                 prop_result' =
                     Returned(IF operator \in Range(ref.supported_operators)
                              THEN "True" ELSE "False")
          /\ method = "validate_operator" =>
                 /\ prop_result'.raised
                      <=> operator \notin Range(ref.supported_operators)
                 /\ ~prop_result'.raised => prop_result' = Returned("None")
          /\ (method = "validate_operator"
                /\ ref.supported_operators = <<"EQUALS", "LIKE">>) =>
                 /\ operator = "GREATER_THAN" => prop_result'.raised
                 /\ operator \in {"EQUALS", "LIKE"} => ~prop_result'.raised
      ]_vars

C10_Witness ==
    /\ prop_pc = "done"
    /\ method = "validate_operator"
    /\ ref = PropertyRefImpl("string", <<"EQUALS", "LIKE">>)
    /\ operator = "GREATER_THAN"
    /\ prop_result.raised

(***************************************************************************)
(* Properties of the tokenizer's errors.                                    *)
(***************************************************************************)
\* the characters the grammar has no use for
InvalidAt(s) ==
    {i \in 1..Len(s) :
        s[i] \notin IdentifierChars \cup OperatorChars \cup WhitespaceChars}

\* parse has raised the invalid-character error
InvalidCharacterRaised ==
    /\ pc = "done"
    /\ result.kind = "error"
    /\ result.error.msg = "Invalid character"

\* C11: when parse rejects an expression for an invalid character, the
\* reported position is the 0-based index of the first invalid character in
\* the string passed to parse, leading whitespace included.
C11_Position ==
    (entry = "parse" /\ InvalidCharacterRaised) =>
        /\ InvalidAt(dsl_expression) # {}
        /\ result.error.position = Min(InvalidAt(dsl_expression)) - 1

\* C12: the tokenizer accepts exactly the strings of A-Z, a-z, 0-9, '_', the
\* five operator characters, space, tab and newline; every other character,
\* letters, digits and whitespace outside ASCII included, makes it fail with
\* the invalid-character error.
C12_Alphabet ==
    (entry = "_tokenize" /\ pc = "done") =>
        IF LexicallyPlain(dsl_expression)
        THEN result.kind = "tokens"
        ELSE InvalidCharacterRaised

(***************************************************************************)
(* Properties of the Condition combinators.                                 *)
(***************************************************************************)
\* the backend a condition class belongs to
Backend(class) ==
    CASE class \in {"DjangoConditionAdapter", "DjangoCondition"} -> "Django"
      [] class \in {"SQLAlchemyConditionAdapter", "SQLAlchemyCondition"}
           -> "SQLAlchemy"
      [] OTHER -> "none"

IncompatibleCondition ==
    GenRaise("Cannot combine with non-backend condition", <<>>)

\* C13: for every condition class, and_(other) and or_(other) fail with the
\* incompatible-condition error whenever other is of a different backend,
\* returning nothing; not_() never fails; a combinator that succeeds returns
\* a new Condition of the class of self wrapping the combined fragment; and
\* self and other are as they were.
C13_Combinators ==
    [][(cond_pc = "call" /\ cond_pc' = "done") =>
          /\ cond_self' = cond_self
          /\ cond_other' = cond_other
          /\ (cond_method \in {"and_", "or_"}
                /\ cond_other # NoCondition
                /\ Backend(cond_other.class) # Backend(cond_self.class)) =>
                 cond_result' = IncompatibleCondition
          /\ cond_method = "not_" =>
                 cond_result'
                   = GenReturned(Condition(cond_self.class,
                                           NotNode(cond_self.q)))
          /\ ~cond_result'.raised =>
                 /\ cond_result'.cond \notin {cond_self, cond_other}
                 /\ cond_result'.cond.class = cond_self.class
                 /\ cond_method = "and_" =>
                        cond_result'.cond.q
                          = AndNode(cond_self.q, cond_other.q)
                 /\ cond_method = "or_" =>
                        cond_result'.cond.q
                          = OrNode(cond_self.q, cond_other.q)
      ]_vars

C13_Witness ==
    /\ cond_pc = "done"
    /\ cond_method = "and_"
    /\ cond_self.class = "DjangoConditionAdapter"
    /\ cond_other.class = "SQLAlchemyConditionAdapter"
    /\ cond_result = IncompatibleCondition

(***************************************************************************)
(* Properties of generate.                                                  *)
(***************************************************************************)
\* the fragment of the tree with each identifier replaced by the fragment
\* of the condition the context holds for it
RECURSIVE Substitute(_, _)
Substitute(node, fragments) ==
    CASE node.kind = "Identifier" -> fragments[node.identifier]
      [] node.kind = "Not" -> NotNode(Substitute(node.kids[1], fragments))
      [] node.kind = "And" -> AndNode(Substitute(node.kids[1], fragments),
                                      Substitute(node.kids[2], fragments))
      [] node.kind = "Or" -> OrNode(Substitute(node.kids[1], fragments),
                                    Substitute(node.kids[2], fragments))

\* the nodes of the tree in post-order, children from left to right
RECURSIVE PostOrder(_)
PostOrder(node) ==
    IF node.kind = "Identifier" THEN <<node>>
    ELSE IF node.kind = "Not"
    THEN Append(PostOrder(node.kids[1]), node)
    ELSE Append(PostOrder(node.kids[1]) \o PostOrder(node.kids[2]), node)

\* the call generate makes for a node
CallFor(node, cl, fragments) ==
    CASE node.kind = "Identifier" ->
             Call("get_condition", node.identifier, NoCondition, NoCondition)
      [] node.kind = "Not" ->
             Call("not_", <<>>,
                  Condition(cl, Substitute(node.kids[1], fragments)),
                  NoCondition)
      [] node.kind = "And" ->
             Call("and_", <<>>,
                  Condition(cl, Substitute(node.kids[1], fragments)),
                  Condition(cl, Substitute(node.kids[2], fragments)))
      [] node.kind = "Or" ->
             Call("or_", <<>>,
                  Condition(cl, Substitute(node.kids[1], fragments)),
                  Condition(cl, Substitute(node.kids[2], fragments)))

\* the fragments of the stored conditions of the context
StoredFragments == [k \in DOMAIN context.filters |-> context.filters[k].q]

\* generate has returned or raised for a context of stored conditions that
\* holds every identifier of the tree
GeneratedOnComplete ==
    /\ gen_pc = "done"
    /\ context.class \in ContextClasses
    /\ MissingKeys = {}

\* C14: for every tree and every context holding all of its identifiers,
\* generate returns the post-order evaluation of the tree (Identifier(n) is
\* context[n], Not(c) is gen(c).not_(), And(l, r) is gen(l).and_(gen(r)),
\* Or alike); the calls it makes are one lookup per leaf and one combinator
\* call per internal node, in post-order with the left operand first.
C14_PostOrder ==
    GeneratedOnComplete =>
        LET cl == ConditionClassOf(context.class)
            order == PostOrder(filter_tree)
        IN /\ ~gen_result.raised
           /\ gen_result.cond
                = Condition(cl, Substitute(filter_tree, StoredFragments))
           /\ gen_result.calls
                = [i \in 1..Len(order) |->
                      CallFor(order[i], cl, StoredFragments)]

C14_Witness ==
    /\ GeneratedOnComplete
    /\ filter_tree = OrNode(AndNode(NotNode(IdA), IdB), IdA)
    /\ [i \in 1..Len(gen_result.calls) |-> gen_result.calls[i].method]
         = <<"get_condition", "not_", "get_condition", "and_",
             "get_condition", "or_">>

Unsupported(definition) ==
    /\ definition.ref \in DOMAIN TestPropertyRefImpl
    /\ definition.operator
         \notin Range(TestPropertyRefImpl[definition.ref].supported_operators)

\* C17: when add_condition(key, definition) fails validation, the
\* definition's operator not being supported by its property, the call
\* raises, makes no builder call and leaves every entry of the context,
\* that of key included, as it was.
C17_FailedAdd ==
    [][(ctx_call'.method = "add_condition" /\ ctx_count' = ctx_count + 1
          /\ Unsupported(ctx_call'.definition)) =>
          /\ ctx_result'.raised
          /\ ctx_result'.calls = <<>>
          /\ adapter'.filters = adapter.filters
      ]_vars

C17_Witness ==
    /\ ctx_call = [method |-> "add_condition", key |-> <<"a">>,
                   definition |->
                       FilterDefinition("USER_NAME", "GREATER_THAN", "scalar")]
    /\ adapter.class = "SQLAlchemyContextAdapter"
    /\ DOMAIN adapter.filters = {<<"a">>, <<"b">>}
    /\ ctx_result.raised
    /\ ctx_result.error = "Operator is not supported"

\* the condition the builder makes of a definition for a SQLAlchemy context
BuiltFrom(definition) ==
    Condition("SQLAlchemyConditionAdapter",
              Fragment(definition.ref, definition.operator, definition.value))

\* C20: after any sequence of add_condition calls on a
\* SQLAlchemyContextAdapter that started empty, the entries are those of the
\* keys added successfully, each holding the condition built from the ref,
\* operator and value of the key's most recent successful add_condition;
\* get_condition(k) returns that condition, and returns None without
\* raising for a key never added successfully.
C20_Lookup ==
    adapter.class = "SQLAlchemyContextAdapter" =>
        /\ DOMAIN adapter.filters = DOMAIN added
        /\ Cardinality(DOMAIN adapter.filters) = Cardinality(DOMAIN added)
        /\ \A k \in DOMAIN added :
               adapter.filters[k] = BuiltFrom(added[k].definition)
        /\ ctx_call.method = "get_condition" =>
               /\ ~ctx_result.raised
               /\ ctx_result.cond
                    = IF ctx_call.key \in DOMAIN added
                      THEN BuiltFrom(added[ctx_call.key].definition)
                      ELSE NoCondition

C20_Witness ==
    /\ adapter.class = "SQLAlchemyContextAdapter"
    /\ ctx_call.method = "get_condition"
    /\ ctx_call.key = <<"a">>
    /\ <<"a">> \in DOMAIN added
    /\ added[<<"a">>].times = 2
    /\ added[<<"a">>].definition
         = FilterDefinition("USER_AGE", "GREATER_THAN", "scalar")
    /\ ctx_result.cond
         = BuiltFrom(FilterDefinition("USER_AGE", "GREATER_THAN", "scalar"))

\* the value's cardinality does not match the operator: BETWEEN and
\* NOT_BETWEEN without a list of exactly 2 values, IN and NOT_IN without a
\* non-empty list, IS_NULL and IS_NOT_NULL with a value
CardinalityMismatch(op, v) ==
    \/ op \in {"BETWEEN", "NOT_BETWEEN"} /\ v # "list2"
    \/ op \in {"IN", "NOT_IN"} /\ v \notin Lists \ {"list0"}
    \/ op \in {"IS_NULL", "IS_NOT_NULL"} /\ v # "None"

\* C18: no Condition is produced for a FilterDefinition whose value
\* cardinality does not match its operator: add_condition fails for it
\* before the builder is called, and no entry of the context was built from
\* such a definition.
C18_Cardinality ==
    /\ (/\ ctx_call.method = "add_condition"
        /\ CardinalityMismatch(ctx_call.definition.operator,
                               ctx_call.definition.value)) =>
           /\ ctx_result.raised
           /\ ctx_result.calls = <<>>
    /\ \A k \in DOMAIN added :
           ~CardinalityMismatch(added[k].definition.operator,
                                added[k].definition.value)

\* the calls of a call log that invoke a backend builder: build of the eager
\* adapters' builder, _create_q_object / _create_clause of the lazy ones
BuilderCalls(calls) ==
    {i \in DOMAIN calls : calls[i].method \in {"build", "_create_q_object"}}

\* C16: once execute_filter has generated the condition of a request, the
\* builder was invoked exactly once for each filter key of the request while
\* the context was made, and not at all during generation.
C16_BuiltOnce ==
    (svc_pc \in {"execute", "done"} /\ gen_pc = "done"
        /\ ~gen_result.raised) =>
        /\ \A k \in DOMAIN filter_request.filters :
              Cardinality({i \in BuilderCalls(built) : built[i].key = k}) = 1
        /\ BuilderCalls(gen_result.calls) = {}

\* the definition a fragment was built from is of an operator its property
\* supports
FragmentSupported(properties, q) ==
    /\ q.identifier[1] \in DOMAIN properties
    /\ supports_operator(properties[q.identifier[1]], q.identifier[2])

\* C19: every Condition get_condition gives, for any key of an eager
\* adapter's filters or of a lazy adapter's filters, was built from a
\* FilterDefinition whose operator its property reference supports.
C19_Supported ==
    /\ \A k \in DOMAIN adapter.filters :
          LET r == get_condition(adapter, k) IN
          (~r.raised /\ r.cond # NoCondition) =>
              FragmentSupported(adapter.property_ref_impl, r.cond.q)
    /\ \A k \in DOMAIN context.filters :
          context.class \in LazyContextClasses =>
              LET r == get_condition(context, k) IN
              (~r.raised /\ r.cond # NoCondition) =>
                  FragmentSupported(context.property_registry, r.cond.q)

\* C21: DjangoContextAdapter.add_condition(key, definition), for a
\* definition whose operator its property supports, calls the builder with
\* the definition's ref, operator and value; when the builder returns, the
\* condition is stored and get_condition(key) returns it.
C21_DjangoAdd ==
    (/\ adapter.class = "DjangoContextAdapter"
     /\ ctx_call.method = "add_condition"
     /\ ctx_call.definition.ref \in DOMAIN TestPropertyRefImpl
     /\ ~Unsupported(ctx_call.definition)) =>
        LET d == ctx_call.definition
            built_of == Fragment(d.ref, d.operator, d.value)
        IN /\ ctx_result.calls
                = <<Call("build", ctx_call.key, Condition("", built_of),
                         NoCondition)>>
           /\ ~ctx_result.raised =>
                 /\ ctx_call.key \in DOMAIN adapter.filters
                 /\ get_condition(adapter, ctx_call.key)
                      = GenReturned(Condition("DjangoConditionAdapter",
                                              built_of))

\* C22: once a tree has been generated against a context, no call on the
\* context changes its mapping from keys to Conditions, and every later
\* generation of the tree against it ends as the first did, with an equal
\* Condition.
C22_ReadOnly ==
    gen_remembered.called =>
        /\ adapter.filters = gen_remembered.context.filters
        /\ gen_result.raised = gen_remembered.result.raised
        /\ gen_result.cond = gen_remembered.result.cond

(***************************************************************************)
(* Properties of the phases of DSLParser.                                   *)
(***************************************************************************)
\* the nodes on the stack after the first n tokens of a postfix list, none
\* of them having failed: an identifier adds one, AND and OR take two and
\* add one
NodesAfter(ts, n) ==
    Cardinality({i \in 1..n : ts[i].type = "IDENTIFIER"})
      - Cardinality({i \in 1..n : ts[i].type \in {"AND", "OR"}})

\* the positions whose operator finds too few nodes
Starved(ts) ==
    {i \in 1..Len(ts) :
        \/ ts[i].type = "NOT" /\ NodesAfter(ts, i - 1) < 1
        \/ ts[i].type \in {"AND", "OR"} /\ NodesAfter(ts, i - 1) < 2}

MissingOperand(type) ==
    CASE type = "NOT" ->
            Raised(DSLSyntaxException(
                "Invalid expression: NOT operator without operand"))
      [] type = "AND" ->
            Raised(DSLSyntaxException(
                "Invalid expression: AND operator requires two operands"))
      [] type = "OR" ->
            Raised(DSLSyntaxException(
                "Invalid expression: OR operator requires two operands"))

MalformedExpression ==
    Raised(DSLSyntaxException("Invalid expression: malformed syntax"))

\* the identifiers of the leaves of a tree, left to right
RECURSIVE LeafSeq(_)
LeafSeq(node) ==
    CASE node.kind = "Identifier" -> <<node.identifier>>
      [] node.kind = "Not" -> LeafSeq(node.kids[1])
      [] OTHER -> LeafSeq(node.kids[1]) \o LeafSeq(node.kids[2])

\* the values of the tokens of one of the types, in order
RECURSIVE ValuesOf(_, _)
ValuesOf(ts, types) ==
    IF ts = <<>> THEN <<>>
    ELSE IF Head(ts).type \in types
    THEN <<Head(ts).value>> \o ValuesOf(Tail(ts), types)
    ELSE ValuesOf(Tail(ts), types)

KindOf(type) ==
    CASE type = "IDENTIFIER" -> "Identifier"
      [] type = "NOT" -> "Not"
      [] type = "AND" -> "And"
      [] type = "OR" -> "Or"

\* C23: _build_expression_tree fails with the missing-operand error of the
\* first operator that finds too few nodes on the stack (none for NOT, fewer
\* than two for AND and OR); with no such operator it fails with the
\* malformed-expression error unless exactly one node remains, and then
\* returns that node, the one made for the last token.
C23_BuildErrors ==
    (entry = "_build_expression_tree" /\ pc = "done") =>
        IF Starved(postfix) # {}
        THEN result = MissingOperand(postfix[Min(Starved(postfix))].type)
        ELSE IF NodesAfter(postfix, Len(postfix)) # 1
        THEN result = MalformedExpression
        ELSE /\ result.kind = "tree"
             /\ LeafSeq(result.tree) = ValuesOf(postfix, {"IDENTIFIER"})
             /\ LET made == {i \in 1..Len(postfix) :
                               postfix[i].type
                                 \in {"IDENTIFIER", "NOT", "AND", "OR"}}
                IN result.tree.kind = KindOf(postfix[Max(made)].type)

C23_Witness ==
    /\ entry = "_build_expression_tree"
    /\ pc = "done"
    /\ postfix = <<Token("IDENTIFIER", <<"a">>), Token("NOT", <<"!">>),
                   Token("OR", <<"|">>), Token("IDENTIFIER", <<"b">>)>>
    /\ result = MissingOperand("OR")

\* what _parse_tokens gives for a token list, the two phases run whole
ParseTokensResult(ts) ==
    IF ts = <<>> THEN Raised(DSLSyntaxException("Empty expression"))
    ELSE LET r == _infix_to_postfix(ts) IN
         IF ~r.ok THEN Raised(r.error)
         ELSE LET b == _build_expression_tree(r.output) IN
              IF b.ok THEN ReturnedTree(b.tree) ELSE Raised(b.error)

\* no token is read twice by a phase, no operator is pushed twice or popped
\* more often than pushed; a parse that returns a tree has read every token
\* and every postfix token once and popped every operator it pushed
StepCounts ==
    /\ \A k \in DOMAIN loop.read :
          /\ loop.read[k] <= 1
          /\ loop.pushed[k] <= loop.read[k]
          /\ loop.popped[k] <= loop.pushed[k]
    /\ \A k \in DOMAIN loop.used : loop.used[k] <= 1
    /\ pc = "done" =>
          /\ result.kind \in {"tree", "error"}
          /\ (result.kind = "tree") # (result.error # NoError)
          /\ loop.phase \in {"idle", "done"}
          /\ trimmed # <<>> /\ _tokenize(trimmed).ok =>
                result = ParseTokensResult(tokens)
    /\ (pc = "done" /\ result.kind = "tree") =>
          /\ \A k \in DOMAIN loop.read :
                loop.read[k] = 1 /\ loop.popped[k] = loop.pushed[k]
          /\ DOMAIN loop.read = 1..Len(tokens)
          /\ \A k \in DOMAIN loop.used : loop.used[k] = 1
          /\ DOMAIN loop.used = 1..Len(postfix)

\* C24: parse ends on every input, with a tree or with one error; on the
\* way no token is read more than once by the infix-to-postfix loop, no
\* postfix token more than once by the tree-building loop, no operator is
\* pushed more than once or popped more often than pushed; each is exactly
\* once when parse returns a tree.
C24_Terminates == <>(pc = "done") /\ []StepCounts

C24_Witness ==
    /\ pc = "done"
    /\ dsl_expression = <<"!", "a", "&", "a">>
    /\ result.kind = "tree"
    /\ loop.read = <<1, 1, 1, 1>>
    /\ loop.pushed = <<1, 0, 1, 0>>
    /\ loop.popped = <<1, 0, 1, 0>>
    /\ loop.used = <<1, 1, 1, 1>>

\* C24 as stated: whenever parse has ended on a string with tokens, every
\* token was read exactly once by the infix-to-postfix loop and every postfix
\* token exactly once by the tree-building loop.
C24_ExactlyOnce ==
    (pc = "done" /\ tokens # <<>>) =>
        /\ \A k \in 1..Len(tokens) : loop.read[k] = 1
        /\ \A k \in DOMAIN loop.used : loop.used[k] = 1

(***************************************************************************)
(* Properties of the lazy adapters and of execute_filter.                   *)
(***************************************************************************)
\* the generated tree is the one identifier k and the lazy context holds,
\* for k, a definition of a registered property whose operator text parses
\* to one of ops
LookedUp(k, ops) ==
    /\ svc_pc \in {"execute", "done"}
    /\ gen_pc = "done"
    /\ filter_tree = IdentifierNode(k)
    /\ k \in DOMAIN context.filters
    /\ context.filters[k].ref \in DOMAIN context.property_registry
    /\ parse_operator(context.filters[k].operator).value \in ops

\* C25: in the lazy adapters a BETWEEN or NOT_BETWEEN definition yields a
\* condition exactly when its value is a list of exactly two elements; for
\* every other value the lookup raises and gives no condition.
C25_Between ==
    \A k \in RequestKeys :
        LookedUp(k, {"BETWEEN", "NOT_BETWEEN"}) =>
            LET d == context.filters[k]
                op == parse_operator(d.operator).value
            IN IF d.value = "list2"
               THEN /\ ~gen_result.raised
                    /\ gen_result.cond
                         = Condition(LazyConditionClassOf(context.class),
                                     Fragment(d.ref, op, "list2"))
               ELSE /\ gen_result.raised
                    /\ gen_result.cond = NoCondition
                    /\ gen_result.error
                         = IF op = "BETWEEN"
                           THEN "BETWEEN operator requires exactly 2 values"
                           ELSE "NOT BETWEEN operator requires exactly 2 values"

C25_Witness ==
    /\ LookedUp(<<"a">>, {"NOT_BETWEEN"})
    /\ service = "SQLAlchemyFilterService"
    /\ context.filters[<<"a">>].value = "list3"
    /\ gen_result.raised
    /\ svc_pc = "done"
    /\ svc_result.raised

OwnKind ==
    /\ gen_pc = "done"
    /\ gen_result.cond.class = LazyConditionClassOf(ContextClassOf(service))

\* C27: execute_filter parses, then makes the context, then generates, then
\* executes: the context exists only once parse has returned a tree,
\* generation runs only against it, the executor is reached and the query
\* issued only after generate has returned a Condition of the service's
\* kind; when parse or generate raises, that exception leaves
\* execute_filter and no query is issued.
C27_Order ==
    svc_pc # "idle" =>
        /\ svc_pc \in {"generate", "execute"} \/ gen_pc = "done" =>
              /\ pc = "done" /\ result.kind = "tree"
              /\ filter_tree = result.tree
              /\ context.class = ContextClassOf(service)
              /\ context.filters = filter_request.filters
        /\ svc_pc = "execute" => gen_pc = "done" /\ ~gen_result.raised
        /\ svc_result = Returned("rows") =>
              /\ svc_pc = "done"
              /\ result.kind = "tree"
              /\ ~gen_result.raised
              /\ OwnKind
        /\ svc_pc = "done" =>
              IF result.kind = "error"
              THEN /\ svc_result = Raise(result.error.msg)
                   /\ gen_pc = "idle"
              ELSE IF gen_result.raised
              THEN svc_result = Raise(gen_result.error)
              ELSE IF ~OwnKind
              THEN svc_result.raised
              ELSE svc_result = Returned("rows")

C27_Witness ==
    /\ svc_pc = "done"
    /\ service = "DjangoFilterService"
    /\ filter_request.combine_with = <<"a", " ", "&", " ", "b">>
    /\ result.kind = "tree"
    /\ gen_result.raised
    /\ gen_result.error = "Property not found"
    /\ Len(gen_result.calls) = 3
    /\ svc_result = Raise("Property not found")

\* C26: a parse that fails raises one error and returns no tree, and the
\* error is that of the earliest failing phase: the invalid-character error
\* when the string has a character outside the grammar's alphabet, else the
\* mismatched-parentheses error when its parentheses are unbalanced, else a
\* missing-operand or malformed-expression error.
C26_PhaseOrder ==
    (entry = "parse" /\ pc = "done" /\ result.kind = "error"
        /\ dsl_expression # None) =>
        /\ result.tree = NoTree
        /\ result.error # NoError
        /\ InvalidAt(dsl_expression) # {} => InvalidCharacterRaised
        /\ (InvalidAt(dsl_expression) = {} /\ ~Blank(dsl_expression)) =>
              IF ~Balanced(dsl_expression)
              THEN result = MismatchedParentheses
              ELSE result \in {MissingOperand("NOT"), MissingOperand("AND"),
                               MissingOperand("OR"), MalformedExpression}

\* C28: parse returns a tree only for sentences of the infix grammar: when a
\* call on a string of identifier characters, operators, parentheses and
\* whitespace returns a tree, the string's tokens form a sentence (so
\* "a !", "a b &", "& a b" and "a ()" all fail).
C28_Grammar ==
    (entry = "parse" /\ pc = "done" /\ dsl_expression # None
        /\ LexicallyPlain(dsl_expression) /\ result.kind = "tree") =>
        WellFormed(RefTokens(dsl_expression))

\* the number of nodes of one kind in a tree
RECURSIVE CountNodes(_, _)
CountNodes(node, kind) ==
    (IF node.kind = kind THEN 1 ELSE 0)
      + (CASE node.kind = "Identifier" -> 0
           [] node.kind = "Not" -> CountNodes(node.kids[1], kind)
           [] OTHER -> CountNodes(node.kids[1], kind)
                         + CountNodes(node.kids[2], kind))

NonParenTypes == {"IDENTIFIER", "NOT", "AND", "OR"}

\* C29: when _infix_to_postfix succeeds its output has no parenthesis token
\* and is a permutation of the non-parenthesis tokens, identifiers in their
\* input order; when parse returns a tree, its leaves are the identifier
\* tokens in order and it has one Not, And and Or node per '!', '&' and '|'
\* token.
C29_Permutation ==
    /\ (entry = "parse" /\ pc = "_build_expression_tree") =>
          /\ \A i \in 1..Len(postfix) : postfix[i].type \in NonParenTypes
          /\ Len(postfix) = Len(ValuesOf(tokens, NonParenTypes))
          /\ \A type \in NonParenTypes :
                ValuesOf(postfix, {type}) = ValuesOf(tokens, {type})
    /\ (entry = "parse" /\ pc = "done" /\ result.kind = "tree") =>
          /\ LeafSeq(result.tree) = ValuesOf(tokens, {"IDENTIFIER"})
          /\ \A type \in {"NOT", "AND", "OR"} :
                CountNodes(result.tree, KindOf(type))
                  = Len(ValuesOf(tokens, {type}))

\* a tree returned for tokens with a parenthesis pair, a unary and a binary
\* operator
C29_Witness ==
    /\ entry = "parse"
    /\ pc = "done"
    /\ result.kind = "tree"
    /\ ValuesOf(tokens, {"LEFT_PAREN"}) # <<>>
    /\ ValuesOf(tokens, {"NOT"}) # <<>>
    /\ ValuesOf(tokens, {"AND", "OR"}) # <<>>
    /\ postfix # SelectSeq(tokens, LAMBDA t : t.type \in NonParenTypes)

(***************************************************************************)
(* IdentifierNode.generate against contexts that hold, per key, no          *)
(* condition, a condition of the adapter's class or a condition that is     *)
(* false in a boolean test.                                                 *)
(***************************************************************************)
StoredClasses == {"SQLAlchemyConditionAdapter", FalsyConditionClass}

IdentifierContexts ==
    {[class |-> "SQLAlchemyContextAdapter",
      filters |-> [k \in keys |-> Condition(cls[k], IdentifierNode(k))]] :
        keys \in SUBSET FilterKeys, cls \in [FilterKeys -> StoredClasses]}

InitIdentifier ==
    /\ filter_tree \in TreesOfSize(1) \cup TreesOfSize(2)
    /\ context \in IdentifierContexts
    /\ gen_pc = "call"
    /\ gen_result = GenNotCalled
    /\ ParserIdle
    /\ OperatorIdle
    /\ PropertyIdle
    /\ AdapterIdle

NextIdentifier == call_generate

SpecIdentifier == InitIdentifier /\ [][NextIdentifier]_vars

\* C30: for every key the context holds a Condition for,
\* IdentifierNode.generate returns that Condition unchanged, also when the
\* Condition is false in a boolean test; it raises the not-found error only
\* when the context holds no Condition for the key.
C30_Unchanged ==
    (gen_pc = "done" /\ filter_tree.kind = "Identifier") =>
        IF filter_tree.identifier \in DOMAIN context.filters
        THEN /\ ~gen_result.raised
             /\ gen_result.cond = context.filters[filter_tree.identifier]
        ELSE /\ gen_result.raised
             /\ gen_result.error = "No condition found for identifier"
             /\ gen_result.key = filter_tree.identifier

====
